---- MODULE Spec2Model ----
(***************************************************************************)
(* Circe: credit-card statement extraction.  A model of src/parser.py      *)
(* (pattern catalog, normalizers, validator, PDF text adapter, analyze_pdf)*)
(* and of the password loop and the bills table of src/main.py.            *)
(*                                                                         *)
(* Conventions                                                             *)
(*  - A Python optional is a sequence of length 0 (None) or 1 (a value).   *)
(*  - A date string is a record [sep, toks]: the separator text and the    *)
(*    three tokens between the separators, each [k, v, w]: kind ("num", a  *)
(*    month "abbr"eviation, a "full" month name, another "word"), value    *)
(*    and printed width.                                                   *)
(*  - An amount string is a sequence of one-character strings; the rupee   *)
(*    glyph is the token "RUPEE".                                          *)
(*  - A text is a sequence of lines.  A line is blank, carries the phrase  *)
(*    of the amortization guard, or is a place where one regular           *)
(*    expression of the catalog matches with given captured groups.        *)
(***************************************************************************)
EXTENDS Integers, Sequences, FiniteSets, TLC

VARIABLES
    doc,          \* the e-mail being processed: institution and PDF behaviour
    now,          \* the wall clock read by datetime.now()
    run,          \* which invocation of the document loop is in progress
    pc,           \* position in main()'s per-document code
    idx,          \* index of the next password candidate
    parsed_data,  \* main()'s variable parsed_data
    log,          \* history: one entry per analyze_pdf call of this run
    outcome,      \* history: per run, the final parsed_data and the clock
    bills,        \* the rows of table bills
    call,         \* harness: arguments of the function under test
    ret,          \* harness: its result, None until applied
    files,        \* the temporary files of the working directory, by name
    procs         \* concurrent invocations of the loop body: e-mail, position, result

vars == <<doc, now, run, pc, idx, parsed_data, log, outcome, bills, call, ret, files, procs>>

----------------------------------------------------------------------------
(* Python optionals *)

None == <<>>
Some(v) == <<v>>
IsNone(x) == Len(x) = 0
Val(x) == x[1]

----------------------------------------------------------------------------
(* datetime: the proleptic Gregorian calendar of Python's datetime module *)

IsLeap(y) == (y % 4 = 0 /\ y % 100 # 0) \/ y % 400 = 0

DaysInMonth(y, m) ==
    IF m = 2 THEN (IF IsLeap(y) THEN 29 ELSE 28)
    ELSE IF m \in {4, 6, 9, 11} THEN 30 ELSE 31

DaysBeforeMonth(y, m) ==
    <<0, 31, 59, 90, 120, 151, 181, 212, 243, 273, 304, 334>>[m]
        + (IF m > 2 /\ IsLeap(y) THEN 1 ELSE 0)

DaysBeforeYear(y) ==
    (y - 1) * 365 + ((y - 1) \div 4) - ((y - 1) \div 100) + ((y - 1) \div 400)

\* date.toordinal(): 0001-01-01 is day 1
toordinal(dt) == DaysBeforeYear(dt.year) + DaysBeforeMonth(dt.year, dt.month) + dt.day

SecondsPerDay == 86400

datetime(y, m, d, s) == [year |-> y, month |-> m, day |-> d, second |-> s]

\* the mutant rounds the difference up to whole days
MutTimedeltaDaysCeil(a, b) ==
    -(((toordinal(b) - toordinal(a)) * SecondsPerDay + (b.second - a.second))
        \div SecondsPerDay)

\* (a - b).days: a timedelta is normalised so that 0 <= seconds < 86400,
\* hence .days is the floor of the difference in days
timedelta_days(a, b) ==
    ((toordinal(a) - toordinal(b)) * SecondsPerDay + (a.second - b.second))
        \div SecondsPerDay

\* the mutant compares the other way round
MutDatetimeGt(a, b) ==
    \/ toordinal(b) < toordinal(a)
    \/ toordinal(a) = toordinal(b) /\ b.second < a.second

\* a < b on datetimes
datetime_lt(a, b) ==
    \/ toordinal(a) < toordinal(b)
    \/ toordinal(a) = toordinal(b) /\ a.second < b.second

----------------------------------------------------------------------------
(* date strings, strptime and strftime *)

Num(v, w) == [k |-> "num", v |-> v, w |-> w]
Abbr(m) == [k |-> "abbr", v |-> m, w |-> 3]
Full(m) == [k |-> "full", v |-> m, w |-> 0]
DateStr(sep, t1, t2, t3) == [sep |-> sep, toks |-> <<t1, t2, t3>>]

\* other captured strings: a card number's digits, an amount's characters
Str(s) == [str |-> s]
Chars(cs) == [chars |-> cs]

\* one directive of a strptime format against one token.  %d and %m take
\* one or two digits, %Y exactly four; %b and %B take a month name ("May"
\* is both the abbreviation and the full name).
DirectiveMatches(dir, tok) ==
    CASE dir = "d" -> tok.k = "num" /\ tok.w \in {1, 2} /\ tok.v \in 1..31
      [] dir = "m" -> tok.k = "num" /\ tok.w \in {1, 2} /\ tok.v \in 1..12
      [] dir = "Y" -> tok.k = "num" /\ tok.w = 4 /\ tok.v \in 1..9999
      [] dir = "b" -> tok.v \in 1..12 /\ (tok.k = "abbr" \/ (tok.k = "full" /\ tok.v = 5))
      [] dir = "B" -> tok.v \in 1..12 /\ (tok.k = "full" \/ (tok.k = "abbr" /\ tok.v = 5))

Pos(dirs, set) == CHOOSE i \in 1..3 : dirs[i] \in set

\* datetime.strptime(s, fmt): None stands for ValueError
strptime(s, fmt) ==
    IF s.sep # fmt.sep \/ \E i \in 1..3 : ~DirectiveMatches(fmt.dirs[i], s.toks[i])
    THEN None
    ELSE LET y == s.toks[Pos(fmt.dirs, {"Y"})].v
             m == s.toks[Pos(fmt.dirs, {"m", "b", "B"})].v
             d == s.toks[Pos(fmt.dirs, {"d"})].v
         IN  IF d > DaysInMonth(y, m) THEN None ELSE Some(datetime(y, m, d, 0))

Digits(n) == IF n >= 1000 THEN 4 ELSE IF n >= 100 THEN 3 ELSE IF n >= 10 THEN 2 ELSE 1

ISO_FORMAT == [sep |-> "-", dirs |-> <<"Y", "m", "d">>]

\* dt.strftime('%Y-%m-%d'); the C library does not zero-pad %Y
strftime_iso(dt) ==
    DateStr("-", Num(dt.year, Digits(dt.year)), Num(dt.month, 2), Num(dt.day, 2))

DATE_FORMATS ==
    << [sep |-> " ",  dirs |-> <<"d", "b", "Y">>],    \* '%d %b %Y'
       [sep |-> "/",  dirs |-> <<"d", "m", "Y">>],    \* '%d/%m/%Y'
       [sep |-> "-",  dirs |-> <<"d", "m", "Y">>],    \* '%d-%m-%Y'
       [sep |-> "-",  dirs |-> <<"d", "b", "Y">>],    \* '%d-%b-%Y'
       [sep |-> " ,", dirs |-> <<"B", "d", "Y">>],    \* '%B %d, %Y'
       [sep |-> " ",  dirs |-> <<"d", "B", "Y">>],    \* '%d %B %Y'
       [sep |-> "-",  dirs |-> <<"Y", "m", "d">>],    \* '%Y-%m-%d'
       [sep |-> "/",  dirs |-> <<"m", "d", "Y">>],    \* '%m/%d/%Y'
       [sep |-> ".",  dirs |-> <<"d", "m", "Y">>] >>  \* '%d.%m.%Y'

\* the mutant tries the formats from the last to the first
MutDateFormatsReversed(date_str, date_format) ==
    IF IsNone(date_str) THEN None
    ELSE LET s == Val(date_str)
             given == IF IsNone(date_format) THEN None ELSE strptime(s, Val(date_format))
             ok == {i \in 1..Len(DATE_FORMATS) : ~IsNone(strptime(s, DATE_FORMATS[i]))}
             last == CHOOSE i \in ok : \A j \in ok : i >= j
         IN  IF ~IsNone(given) THEN Some(strftime_iso(Val(given)))
             ELSE IF ok = {} THEN None
             ELSE Some(strftime_iso(Val(strptime(s, DATE_FORMATS[last]))))

\* _clean_and_convert_date(date_str, date_format=None)
clean_and_convert_date(date_str, date_format) ==
    IF IsNone(date_str) THEN None
    ELSE LET s == Val(date_str)
             given == IF IsNone(date_format) THEN None ELSE strptime(s, Val(date_format))
             ok == {i \in 1..Len(DATE_FORMATS) : ~IsNone(strptime(s, DATE_FORMATS[i]))}
             first == CHOOSE i \in ok : \A j \in ok : i <= j
         IN  IF ~IsNone(given) THEN Some(strftime_iso(Val(given)))
             ELSE IF ok = {} THEN None
             ELSE Some(strftime_iso(Val(strptime(s, DATE_FORMATS[first]))))

----------------------------------------------------------------------------
(* amount strings and float() *)

DigitChars == {"0", "1", "2", "3", "4", "5", "6", "7", "8", "9"}

DigitValue(c) ==
    CASE c = "0" -> 0 [] c = "1" -> 1 [] c = "2" -> 2 [] c = "3" -> 3 [] c = "4" -> 4
      [] c = "5" -> 5 [] c = "6" -> 6 [] c = "7" -> 7 [] c = "8" -> 8 [] c = "9" -> 9

RECURSIVE DigitsValue(_)
DigitsValue(cs) ==
    IF cs = <<>> THEN 0
    ELSE 10 * DigitsValue(SubSeq(cs, 1, Len(cs) - 1)) + DigitValue(cs[Len(cs)])

RECURSIVE Pow10(_)
Pow10(n) == IF n = 0 THEN 1 ELSE 10 * Pow10(n - 1)

\* the value m * 10^(-e) in lowest terms of ten: e >= 0, and e > 0 only when
\* m is no multiple of ten
RECURSIVE Decimal(_, _)
Decimal(m, e) ==
    IF e > 0 /\ m % 10 = 0 THEN Decimal(m \div 10, e - 1) ELSE [m |-> m, e |-> e]

LowerChar(c) ==
    CASE c = "I" -> "i" [] c = "N" -> "n" [] c = "F" -> "f" [] c = "A" -> "a"
      [] c = "T" -> "t" [] c = "Y" -> "y" [] c = "E" -> "e" [] OTHER -> c

LowerChars(cs) == [i \in 1..Len(cs) |-> LowerChar(cs[i])]

\* digit ('_'? digit)* : the digit groups float() accepts
DigitPart(cs) ==
    /\ Len(cs) > 0
    /\ \A i \in 1..Len(cs) : cs[i] \in DigitChars \cup {"_"}
    /\ cs[1] # "_" /\ cs[Len(cs)] # "_"
    /\ \A i \in 1..(Len(cs) - 1) : ~(cs[i] = "_" /\ cs[i + 1] = "_")

IsDigitChar(c) == c \in DigitChars

PartValue(cs) == DigitsValue(SelectSeq(cs, IsDigitChar))

PartLen(cs) == Len(SelectSeq(cs, IsDigitChar))

Finite(m, e) == [kind |-> "finite", m |-> Decimal(m, e).m, e |-> Decimal(m, e).e]

\* the literal cut at its exponent marker, if it has one
EPositions(cs) == {i \in 1..Len(cs) : cs[i] = "e"}

Mantissa(cs) ==
    IF EPositions(cs) = {} THEN cs
    ELSE SubSeq(cs, 1, (CHOOSE i \in EPositions(cs) : TRUE) - 1)

Exponent(cs) ==
    IF EPositions(cs) = {} THEN <<>>
    ELSE SubSeq(cs, (CHOOSE i \in EPositions(cs) : TRUE) + 1, Len(cs))

ExpSigned(exp) == Len(exp) > 0 /\ exp[1] \in {"+", "-"}

ExpDigits(exp) == IF ExpSigned(exp) THEN SubSeq(exp, 2, Len(exp)) ELSE exp

ExpValue(exp) ==
    IF exp = <<>> THEN 0
    ELSE IF ExpSigned(exp) /\ exp[1] = "-" THEN -PartValue(ExpDigits(exp))
    ELSE PartValue(ExpDigits(exp))

\* the mantissa cut at its decimal point, if it has one
DotPositions(mant) == {i \in 1..Len(mant) : mant[i] = "."}

IntPart(mant) ==
    IF DotPositions(mant) = {} THEN mant
    ELSE SubSeq(mant, 1, (CHOOSE i \in DotPositions(mant) : TRUE) - 1)

FracPart(mant) ==
    IF DotPositions(mant) = {} THEN <<>>
    ELSE SubSeq(mant, (CHOOSE i \in DotPositions(mant) : TRUE) + 1, Len(mant))

\* the value digits * 10^(-scale)
Scaled(digits, scale) ==
    IF scale >= 0 THEN Finite(digits, scale) ELSE Finite(digits * Pow10(-scale), 0)

\* digits [. [digits]] [e [sign] digits] / . digits [e [sign] digits]
ParseDecimal(int, frac, exp, hasExp) ==
    IF \/ (hasExp /\ ~DigitPart(ExpDigits(exp)))
       \/ (int # <<>> /\ ~DigitPart(int))
       \/ (frac # <<>> /\ ~DigitPart(frac))
       \/ (int = <<>> /\ frac = <<>>)
    THEN None
    ELSE Some(Scaled(PartValue(int) * Pow10(PartLen(frac)) + PartValue(frac),
                     PartLen(frac) - ExpValue(exp)))

\* the unsigned body of a float literal: "inf", "infinity", "nan", or a
\* decimal literal
ParseUnsigned(cs) ==
    IF cs \in {<<"i", "n", "f">>, <<"i", "n", "f", "i", "n", "i", "t", "y">>}
    THEN Some([kind |-> "inf", m |-> 1, e |-> 0])
    ELSE IF cs = <<"n", "a", "n">> THEN Some([kind |-> "nan", m |-> 0, e |-> 0])
    ELSE IF Cardinality(EPositions(cs)) > 1 \/ Cardinality(DotPositions(Mantissa(cs))) > 1
    THEN None
    ELSE ParseDecimal(IntPart(Mantissa(cs)), FracPart(Mantissa(cs)), Exponent(cs),
                      EPositions(cs) # {})

\* float(cs) of a string without whitespace: None stands for ValueError
ParseFloat(cs) ==
    LET signed == Len(cs) > 0 /\ cs[1] \in {"+", "-"}
        body == ParseUnsigned(LowerChars(IF signed THEN SubSeq(cs, 2, Len(cs)) ELSE cs))
    IN  IF IsNone(body) THEN None
        ELSE IF signed /\ cs[1] = "-"
        THEN Some([kind |-> Val(body).kind, m |-> -Val(body).m, e |-> Val(body).e])
        ELSE body

StrippedChars == {"RUPEE", "$", ",", " ", "\t", "\n"}

KeepChar(c) == c \notin StrippedChars

\* _clean_and_convert_amount(amount_str)
clean_and_convert_amount(amount_str) ==
    IF IsNone(amount_str) \/ amount_str = Some(Chars(<<>>)) THEN None
    ELSE ParseFloat(SelectSeq(Val(amount_str).chars, KeepChar))

----------------------------------------------------------------------------
(* the validator *)

FutureYears == 2
PastDays == 550

\* _is_valid_date(date_str, statement_date_str); current_date is what
\* datetime.now() returns during the call
is_valid_date(date_str, statement_date_str, current_date) ==
    IF IsNone(date_str) THEN FALSE
    ELSE LET parsed == strptime(Val(date_str), ISO_FORMAT)
             stmt == IF IsNone(statement_date_str) THEN None
                     ELSE strptime(Val(statement_date_str), ISO_FORMAT)
         IN  IF IsNone(parsed) THEN FALSE
             ELSE IF Val(parsed).year > current_date.year + FutureYears THEN FALSE
             ELSE IF timedelta_days(current_date, Val(parsed)) > PastDays THEN FALSE
             ELSE IF IsNone(statement_date_str) THEN TRUE
             ELSE IF IsNone(stmt) THEN FALSE
             ELSE ~datetime_lt(Val(parsed), Val(stmt))

----------------------------------------------------------------------------
(* the pattern catalog: every regular expression of the source with its
   number of capture groups; a backtick is written \x60 and the rupee
   glyph \u20b9, which denote the same expressions *)

COMPREHENSIVE_BANK_PATTERNS ==
    [ sbi |-> [
        card_number |-> <<
            [re |-> "XXXX XXXX XXXX (\\w+)", groups |-> 1],
            [re |-> "XXXX XXXX XXXX (\\w{2,4})", groups |-> 1],
            [re |-> "Credit Card Number.*?XXXX XXXX XXXX (\\w+)", groups |-> 1],
            [re |-> "XXXX\\s+XXXX\\s+XXXX\\s+XX(\\d{2,4})", groups |-> 1]
        >>,
        statement_date |-> <<
            [re |-> "Statement\\s*Date\\s*[:\\-]?\\s*(\\d{2}\\s+[A-Za-z]{3}\\s+\\d{4})", groups |-> 1],
            [re |-> "Statement\\s*Date\\s*[:\\-]?\\s*(\\d{1,2}\\s+[A-Za-z]+\\s+\\d{4})", groups |-> 1],
            [re |-> "Statement.*?Date.*?(\\d{2}/\\d{2}/\\d{4})", groups |-> 1],
            [re |-> "Statement.*?(\\d{2}-\\d{2}-\\d{4})", groups |-> 1]
        >>,
        total_due |-> <<
            [re |-> "Total Payment Due\\s*[:\\-]?\\s*\\u20b9?\\s*([\\d,]+\\.\\d{2})", groups |-> 1],
            [re |-> "Total Amount Due\\s*[:\\-]?\\s*\\u20b9?\\s*([\\d,]+\\.\\d{2})", groups |-> 1],
            [re |-> "\\*Total Amount Due.*?([\\d,]+\\.\\d{2})", groups |-> 1]
        >>,
        due_date |-> <<
            [re |-> "Payment\\s+Due\\s+Date[\\s:\\-.]*?(?:\\r?\\n|\\s)+.*?([0-3]?\\d\\s+[A-Za-z]{3}\\s+\\d{4})", groups |-> 1],
            [re |-> "Payment\\s+Due\\s+Date[\\s:\\-.]*?(?:\\r?\\n|\\s)+.*?(\\d{2}/\\d{2}/\\d{4})", groups |-> 1],
            [re |-> "Payment\\s+Due\\s+Date[\\s:\\-.]*?(?:\\r?\\n|\\s)+.*?(\\d{2}-[A-Za-z]{3}-\\d{4})", groups |-> 1],
            [re |-> "(?:Total\\s+)?Payment\\s+Due\\s+Date\\s*[:\\-]?\\s*([0-3]?\\d\\s+[A-Za-z]{3}\\s+\\d{4})", groups |-> 1],
            [re |-> "Payment\\s+Due\\s+Date\\s*[:\\-]?\\s*(\\d{2}-[A-Za-z]{3}-\\d{4})", groups |-> 1],
            [re |-> "Payment\\s+Due\\s+Date\\s*[:\\-]?\\s*(\\d{2}/\\d{2}/\\d{4})", groups |-> 1]
        >>,
        min_due |-> <<
            [re |-> "Minimum\\s+(?:Amount|Payment)\\s+Due\\s*[:\\-]?\\s*\\u20b9?\\s*([\\d,]+\\.\\d{2})", groups |-> 1],
            [re |-> "\\*\\*Minimum Amount Due.*?([\\d,]+\\.\\d{2})", groups |-> 1]
        >>,
        credit_limit |-> <<
            [re |-> "Credit\\s+Limit\\s*\\(.*?\\)\\s*[:\\-]?\\s*\\u20b9?\\s*([\\d,]+\\.\\d{2})", groups |-> 1],
            [re |-> "Credit\\s+Limit.*?\\u20b9?\\s*([\\d,]+\\.\\d{2})", groups |-> 1]
        >>,
        available_limit |-> <<
            [re |-> "Available\\s+Credit\\s+Limit\\s*[:\\-]?\\s*\\u20b9?\\s*([\\d,]+\\.\\d{2})", groups |-> 1],
            [re |-> "Available.*?Limit.*?\\u20b9?\\s*([\\d,]+\\.\\d{2})", groups |-> 1]
        >>
      ],
      indusind |-> [
        card_number |-> <<
            [re |-> "Credit Card No\\. (\\d{4})XXXXXXXX(\\d{4})", groups |-> 2],
            [re |-> "Credit Card No\\.\\s+\\d{4}X+(\\d{4})", groups |-> 1],
            [re |-> "Card.*?No.*?(\\d{4})XXXXXXXX(\\d{4})", groups |-> 2],
            [re |-> "(\\d{4})\\*+(\\d{4})", groups |-> 2]
        >>,
        statement_date |-> <<
            [re |-> "Statement Date\\s+(\\d{2}/\\d{2}/\\d{4})", groups |-> 1],
            [re |-> "Statement.*?Date.*?(\\d{2}/\\d{2}/\\d{4})", groups |-> 1],
            [re |-> "Statement.*?(\\d{2}-\\d{2}-\\d{4})", groups |-> 1]
        >>,
        total_due |-> <<
            [re |-> "Total Amount Due[\\s\\S]*?([\\d,]+\\.\\d{2}) DR", groups |-> 1],
            [re |-> "Total Amount Due\\s+([\\d,]+\\.\\d{2})\\s+DR", groups |-> 1],
            [re |-> "Total.*?Due.*?([\\d,]+\\.\\d{2})", groups |-> 1],
            [re |-> "Amount Due.*?([\\d,]+\\.\\d{2})", groups |-> 1]
        >>,
        due_date |-> <<
            [re |-> "Payment Due Date\\s+(\\d{2}/\\d{2}/\\d{4})", groups |-> 1],
            [re |-> "Due Date.*?(\\d{2}/\\d{2}/\\d{4})", groups |-> 1],
            [re |-> "Pay.*?by.*?(\\d{2}/\\d{2}/\\d{4})", groups |-> 1]
        >>,
        min_due |-> <<
            [re |-> "Minimum Amount Due\\s+([\\d,]+\\.\\d{2})", groups |-> 1],
            [re |-> "Min.*?Due.*?([\\d,]+\\.\\d{2})", groups |-> 1],
            [re |-> "MAD.*?([\\d,]+\\.\\d{2})", groups |-> 1]
        >>,
        credit_limit |-> <<
            [re |-> "Credit.*?Credit Limit\\s+([\\d,]+\\.\\d{2})", groups |-> 1],
            [re |-> "Total.*?Limit.*?([\\d,]+\\.\\d{2})", groups |-> 1],
            [re |-> "Credit Limit.*?([\\d,]+\\.\\d{2})", groups |-> 1]
        >>,
        available_limit |-> <<
            [re |-> "Available Credit Limit\\s+([\\d,]+\\.\\d{2})", groups |-> 1],
            [re |-> "Available.*?Limit.*?([\\d,]+\\.\\d{2})", groups |-> 1]
        >>
      ],
      axis |-> [
        card_number |-> <<
            [re |-> "(\\d{6})\\*+(\\d{4})", groups |-> 2],
            [re |-> "(\\d{4})\\*+(\\d{4})", groups |-> 2],
            [re |-> "Card.*?(\\d{6})\\*+(\\d{4})", groups |-> 2],
            [re |-> "Neo.*?(\\d{6})\\*+(\\d{4})", groups |-> 2]
        >>,
        statement_date |-> <<
            [re |-> "Statement\\s*Date\\s*[:\\-]?\\s*(\\d{2}/\\d{2}/\\d{4})", groups |-> 1],
            [re |-> "Generation\\s*Date\\s*[:\\-]?\\s*(\\d{2}/\\d{2}/\\d{4})", groups |-> 1]
        >>,
        total_due |-> <<
            [re |-> "([\\d,]+\\.\\d{2}) Dr\\s+([\\d,]+\\.\\d{2}) Dr", groups |-> 2],
            [re |-> "Total Payment Due.*?([\\d,]+\\.\\d{2})", groups |-> 1],
            [re |-> "Total.*?Due.*?([\\d,]+\\.\\d{2}) Dr", groups |-> 1],
            [re |-> "Amount Due.*?([\\d,]+\\.\\d{2})", groups |-> 1]
        >>,
        due_date |-> <<
            [re |-> "(\\d{2}/\\d{2}/\\d{4})\\s+(\\d{2}/\\d{2}/\\d{4})\\s*$", groups |-> 2],
            [re |-> "Payment Due Date.*?(\\d{2}/\\d{2}/\\d{4})", groups |-> 1],
            [re |-> "Due.*?(\\d{2}/\\d{2}/\\d{4})", groups |-> 1]
        >>,
        min_due |-> <<
            [re |-> "([\\d,]+\\.\\d{2}) Dr\\s+([\\d,]+\\.\\d{2}) Dr", groups |-> 2],
            [re |-> "Minimum Payment Due.*?([\\d,]+\\.\\d{2})", groups |-> 1],
            [re |-> "Min.*?Due.*?([\\d,]+\\.\\d{2})", groups |-> 1]
        >>,
        credit_limit |-> <<
            [re |-> "Credit Limit\\s+([\\d,]+\\.\\d{2})", groups |-> 1],
            [re |-> "Total.*?Limit.*?([\\d,]+\\.\\d{2})", groups |-> 1]
        >>,
        available_limit |-> <<
            [re |-> "Available Credit Limit\\s+([\\d,]+\\.\\d{2})", groups |-> 1],
            [re |-> "Available.*?Limit.*?([\\d,]+\\.\\d{2})", groups |-> 1]
        >>
      ],
      icici |-> [
        card_number |-> <<
            [re |-> "(\\d{4})XXXXXXXX(\\d{4})", groups |-> 2],
            [re |-> "(\\d{4})\\*+(\\d{4})", groups |-> 2],
            [re |-> "Card.*?(\\d{4})XXXXXXXX(\\d{4})", groups |-> 2],
            [re |-> "Credit Card.*?(\\d{4})\\*+(\\d{4})", groups |-> 2]
        >>,
        statement_date |-> <<
            [re |-> "SSTTAATTEEMMEENNTT DDAATTEE\\s+(\\w+ \\d{1,2}, \\d{4})", groups |-> 1],
            [re |-> "Statement.*?Date.*?(\\w+ \\d{1,2}, \\d{4})", groups |-> 1],
            [re |-> "Statement.*?(\\d{2}/\\d{2}/\\d{4})", groups |-> 1],
            [re |-> "STATEMENT.*?(\\d{2}/\\d{2}/\\d{4})", groups |-> 1]
        >>,
        total_due |-> <<
            [re |-> "Total Amount due\\s+-\\s+\\x60([\\d,]+\\.\\d{2})", groups |-> 1],
            [re |-> "Total.*?due.*?\\x60([\\d,]+\\.\\d{2})", groups |-> 1],
            [re |-> "Total Amount.*?([\\d,]+\\.\\d{2})", groups |-> 1],
            [re |-> "Amount due.*?([\\d,]+\\.\\d{2})", groups |-> 1],
            [re |-> "TOTAL\\s+([\\d,]+\\.\\d{2})", groups |-> 1]
        >>,
        due_date |-> <<
            [re |-> "PPAAYYMMEENNTT DDUUEE DDAATTEE\\s+(\\w+ \\d{1,2}, \\d{4})", groups |-> 1],
            [re |-> "Payment.*?Due.*?Date.*?(\\w+ \\d{1,2}, \\d{4})", groups |-> 1],
            [re |-> "Due Date.*?(\\d{2}/\\d{2}/\\d{4})", groups |-> 1],
            [re |-> "PAYMENT.*?DUE.*?(\\d{2}/\\d{2}/\\d{4})", groups |-> 1]
        >>,
        min_due |-> <<
            [re |-> "Minimum Amount due.*?\\x60([\\d,]+\\.\\d{2})", groups |-> 1],
            [re |-> "Minimum.*?due.*?([\\d,]+\\.\\d{2})", groups |-> 1],
            [re |-> "Min.*?Amount.*?([\\d,]+\\.\\d{2})", groups |-> 1]
        >>,
        credit_limit |-> <<
            [re |-> "Credit Limit \\(Including cash\\).*?\\x60([\\d,]+\\.\\d{2})", groups |-> 1],
            [re |-> "Credit Limit.*?\\x60([\\d,]+\\.\\d{2})", groups |-> 1],
            [re |-> "Total.*?Limit.*?([\\d,]+\\.\\d{2})", groups |-> 1]
        >>,
        available_limit |-> <<
            [re |-> "Available Credit \\(Including cash\\).*?\\x60([\\d,]+\\.\\d{2})", groups |-> 1],
            [re |-> "Available.*?Credit.*?\\x60([\\d,]+\\.\\d{2})", groups |-> 1],
            [re |-> "Available.*?([\\d,]+\\.\\d{2})", groups |-> 1]
        >>
      ],
      kotak |-> [
        card_number |-> <<
            [re |-> "(\\d{4})XXXXXXXX(\\d{4})", groups |-> 2],
            [re |-> "(\\d{4})\\*+(\\d{4})", groups |-> 2],
            [re |-> "Card.*?(\\d{4})XXXXXXXX(\\d{4})", groups |-> 2]
        >>,
        statement_date |-> <<
            [re |-> "Statement Date (\\d{2}-\\w{3}-\\d{4})", groups |-> 1],
            [re |-> "Statement.*?Date.*?(\\d{2}-\\w{3}-\\d{4})", groups |-> 1],
            [re |-> "Statement.*?(\\d{2}/\\d{2}/\\d{4})", groups |-> 1]
        >>,
        total_due |-> <<
            [re |-> "Total Amount Due \\(TAD\\) Rs\\.([\\d,]+\\.\\d{2})", groups |-> 1],
            [re |-> "Total.*?Due.*?Rs\\.([\\d,]+\\.\\d{2})", groups |-> 1],
            [re |-> "TAD.*?Rs\\.([\\d,]+\\.\\d{2})", groups |-> 1],
            [re |-> "Amount Due.*?([\\d,]+\\.\\d{2})", groups |-> 1]
        >>,
        due_date |-> <<
            [re |-> "Remember to pay by (\\d{2}-\\w{3}-\\d{4})", groups |-> 1],
            [re |-> "Pay by (\\d{2}-\\w{3}-\\d{4})", groups |-> 1],
            [re |-> "Due.*?(\\d{2}-\\w{3}-\\d{4})", groups |-> 1],
            [re |-> "Payment.*?(\\d{2}/\\d{2}/\\d{4})", groups |-> 1]
        >>,
        min_due |-> <<
            [re |-> "Minimum Amount Due \\(MAD\\) Rs\\.([\\d,]+\\.\\d{2})", groups |-> 1],
            [re |-> "MAD.*?Rs\\.([\\d,]+\\.\\d{2})", groups |-> 1],
            [re |-> "Minimum.*?Rs\\.([\\d,]+\\.\\d{2})", groups |-> 1]
        >>,
        credit_limit |-> <<
            [re |-> "Total Credit Limit \\(incl\\.cash\\): Rs\\.([\\d,]+\\.\\d{2})", groups |-> 1],
            [re |-> "Credit Limit.*?Rs\\.([\\d,]+\\.\\d{2})", groups |-> 1],
            [re |-> "Total.*?Limit.*?Rs\\.([\\d,]+\\.\\d{2})", groups |-> 1]
        >>,
        available_limit |-> <<
            [re |-> "Available Credit Limit: Rs\\.([\\d,]+\\.\\d{2})", groups |-> 1],
            [re |-> "Available.*?Rs\\.([\\d,]+\\.\\d{2})", groups |-> 1],
            [re |-> "Available.*?Limit.*?([\\d,]+\\.\\d{2})", groups |-> 1]
        >>
      ],
      rbl |-> [
        card_number |-> <<
            [re |-> "XXXXXXXXXXXXXX(\\d{2})", groups |-> 1],
            [re |-> "(\\d{4})\\*+(\\d{4})", groups |-> 2],
            [re |-> "Card.*?(\\d{4})\\*+(\\d{4})", groups |-> 2],
            [re |-> "XXXX.*?(\\d{4})", groups |-> 1]
        >>,
        statement_date |-> <<
            [re |-> "Statement Date\\s+(\\d{2}-\\d{2}-\\d{4})", groups |-> 1],
            [re |-> "Statement.*?Date.*?(\\d{2}-\\d{2}-\\d{4})", groups |-> 1],
            [re |-> "Statement.*?(\\d{2}/\\d{2}/\\d{4})", groups |-> 1]
        >>,
        total_due |-> <<
            [re |-> "Total Amount Due\\s+([\\d,]+\\.\\d{2})", groups |-> 1],
            [re |-> "Total.*?Due.*?([\\d,]+\\.\\d{2})", groups |-> 1],
            [re |-> "Amount Due.*?([\\d,]+\\.\\d{2})", groups |-> 1]
        >>,
        due_date |-> <<
            [re |-> "Payment Due Date\\s+(\\d{2} \\w{3} \\d{4})", groups |-> 1],
            [re |-> "Due Date.*?(\\d{2} \\w{3} \\d{4})", groups |-> 1],
            [re |-> "Payment.*?(\\d{2}/\\d{2}/\\d{4})", groups |-> 1]
        >>,
        min_due |-> <<
            [re |-> "Min\\. Amt\\. Due\\s+([\\d,]+\\.\\d{2})", groups |-> 1],
            [re |-> "Minimum.*?Due.*?([\\d,]+\\.\\d{2})", groups |-> 1],
            [re |-> "Min.*?Due.*?([\\d,]+\\.\\d{2})", groups |-> 1]
        >>,
        credit_limit |-> <<
            [re |-> "Total Credit Limit\\s+([\\d,]+\\.\\d{2})", groups |-> 1],
            [re |-> "Credit Limit.*?([\\d,]+\\.\\d{2})", groups |-> 1],
            [re |-> "Total.*?Limit.*?([\\d,]+\\.\\d{2})", groups |-> 1]
        >>,
        available_limit |-> <<
            [re |-> "Available Credit Limit\\s+([\\d,]+\\.\\d{2})", groups |-> 1],
            [re |-> "Available.*?Limit.*?([\\d,]+\\.\\d{2})", groups |-> 1]
        >>
      ],
      hdfc |-> [
        card_number |-> <<
            [re |-> "(\\d{4})\\s*\\*+\\s*(\\d{4})", groups |-> 2],
            [re |-> "(\\d{4})XXXXXXXX(\\d{4})", groups |-> 2],
            [re |-> "Card.*?(\\d{4})\\*+(\\d{4})", groups |-> 2],
            [re |-> "HDFC.*?(\\d{4})\\*+(\\d{4})", groups |-> 2]
        >>,
        statement_date |-> <<
            [re |-> "Statement Date\\s*:?\\s*(\\d{2}/\\d{2}/\\d{4})", groups |-> 1],
            [re |-> "Statement.*?(\\d{2}-\\d{2}-\\d{4})", groups |-> 1],
            [re |-> "Date.*?(\\d{2}/\\d{2}/\\d{4})", groups |-> 1]
        >>,
        total_due |-> <<
            [re |-> "Total Amount Due\\s*:?\\s*Rs\\.?\\s*([\\d,]+\\.\\d{2})", groups |-> 1],
            [re |-> "Total.*?Due.*?Rs\\.?\\s*([\\d,]+\\.\\d{2})", groups |-> 1],
            [re |-> "Amount Due.*?([\\d,]+\\.\\d{2})", groups |-> 1]
        >>,
        due_date |-> <<
            [re |-> "Payment Due Date\\s*:?\\s*(\\d{2}/\\d{2}/\\d{4})", groups |-> 1],
            [re |-> "Due Date.*?(\\d{2}/\\d{2}/\\d{4})", groups |-> 1],
            [re |-> "Pay.*?by.*?(\\d{2}/\\d{2}/\\d{4})", groups |-> 1]
        >>,
        min_due |-> <<
            [re |-> "Minimum Amount Due\\s*:?\\s*Rs\\.?\\s*([\\d,]+\\.\\d{2})", groups |-> 1],
            [re |-> "Min.*?Due.*?Rs\\.?\\s*([\\d,]+\\.\\d{2})", groups |-> 1],
            [re |-> "Minimum.*?([\\d,]+\\.\\d{2})", groups |-> 1]
        >>,
        credit_limit |-> <<
            [re |-> "Credit Limit\\s*:?\\s*Rs\\.?\\s*([\\d,]+\\.\\d{2})", groups |-> 1],
            [re |-> "Total.*?Limit.*?Rs\\.?\\s*([\\d,]+\\.\\d{2})", groups |-> 1]
        >>,
        available_limit |-> <<
            [re |-> "Available Credit\\s*:?\\s*Rs\\.?\\s*([\\d,]+\\.\\d{2})", groups |-> 1],
            [re |-> "Available.*?Rs\\.?\\s*([\\d,]+\\.\\d{2})", groups |-> 1]
        >>
      ],
      bob |-> [
        card_number |-> <<
            [re |-> "(\\d{4})\\s*\\*+\\s*(\\d{4})", groups |-> 2],
            [re |-> "(\\d{4})XXXXXXXX(\\d{4})", groups |-> 2],
            [re |-> "Card.*?(\\d{4})\\*+(\\d{4})", groups |-> 2]
        >>,
        statement_date |-> <<
            [re |-> "Statement Date\\s*:?\\s*(\\d{2}/\\d{2}/\\d{4})", groups |-> 1],
            [re |-> "Statement.*?(\\d{2}-\\d{2}-\\d{4})", groups |-> 1],
            [re |-> "Date.*?(\\d{2}/\\d{2}/\\d{4})", groups |-> 1]
        >>,
        total_due |-> <<
            [re |-> "Total Amount Due\\s*:?\\s*([\\d,]+\\.\\d{2})", groups |-> 1],
            [re |-> "Total.*?Due.*?([\\d,]+\\.\\d{2})", groups |-> 1],
            [re |-> "Amount Due.*?([\\d,]+\\.\\d{2})", groups |-> 1]
        >>,
        due_date |-> <<
            [re |-> "Payment Due Date\\s*:?\\s*(\\d{2}/\\d{2}/\\d{4})", groups |-> 1],
            [re |-> "Due Date.*?(\\d{2}/\\d{2}/\\d{4})", groups |-> 1],
            [re |-> "Pay.*?by.*?(\\d{2}/\\d{2}/\\d{4})", groups |-> 1]
        >>,
        min_due |-> <<
            [re |-> "Minimum Amount Due\\s*:?\\s*([\\d,]+\\.\\d{2})", groups |-> 1],
            [re |-> "Min.*?Due.*?([\\d,]+\\.\\d{2})", groups |-> 1],
            [re |-> "Minimum.*?([\\d,]+\\.\\d{2})", groups |-> 1]
        >>,
        credit_limit |-> <<
            [re |-> "Credit Limit\\s*:?\\s*([\\d,]+\\.\\d{2})", groups |-> 1],
            [re |-> "Total.*?Limit.*?([\\d,]+\\.\\d{2})", groups |-> 1]
        >>,
        available_limit |-> <<
            [re |-> "Available Credit\\s*:?\\s*([\\d,]+\\.\\d{2})", groups |-> 1],
            [re |-> "Available.*?([\\d,]+\\.\\d{2})", groups |-> 1]
        >>
      ] ]

----------------------------------------------------------------------------
(* str.lower() and str.upper() on the institution identifiers and on the   *)
(* phrase of the amortization guard, the only strings the code case-folds  *)

str_lower(s) ==
    CASE s \in {"sbi", "SBI", "Sbi"} -> "sbi"
      [] s \in {"indusind", "INDUSIND"} -> "indusind"
      [] s \in {"axis", "AXIS", "Axis"} -> "axis"
      [] s \in {"icici", "ICICI", "Icici"} -> "icici"
      [] s \in {"kotak", "KOTAK"} -> "kotak"
      [] s \in {"rbl", "RBL"} -> "rbl"
      [] s \in {"hdfc", "HDFC"} -> "hdfc"
      [] s \in {"bob", "BOB"} -> "bob"
      [] s \in {"amex", "AMEX"} -> "amex"
      [] s \in {"amortization schedule", "Amortization Schedule",
                "AMORTIZATION SCHEDULE"} -> "amortization schedule"
      [] OTHER -> s

str_upper(s) ==
    CASE str_lower(s) = "sbi" -> "SBI"
      [] str_lower(s) = "indusind" -> "INDUSIND"
      [] str_lower(s) = "axis" -> "AXIS"
      [] str_lower(s) = "icici" -> "ICICI"
      [] str_lower(s) = "kotak" -> "KOTAK"
      [] str_lower(s) = "rbl" -> "RBL"
      [] str_lower(s) = "hdfc" -> "HDFC"
      [] str_lower(s) = "bob" -> "BOB"
      [] str_lower(s) = "amex" -> "AMEX"
      [] str_lower(s) = "amortization schedule" -> "AMORTIZATION SCHEDULE"
      [] OTHER -> s

----------------------------------------------------------------------------
(* texts and re.search *)

BlankLine == [kind |-> "blank", s |-> " ", groups |-> <<>>]
PhraseLine(p) == [kind |-> "phrase", s |-> p, groups |-> <<>>]
MatchLine(re, groups) == [kind |-> "match", s |-> re, groups |-> groups]

\* text.strip() is non-empty
HasVisibleText(text) == \E i \in 1..Len(text) : text[i].kind # "blank"

\* phrase in text.lower()
ContainsLower(text, phrase) ==
    \E i \in 1..Len(text) : text[i].kind = "phrase" /\ str_lower(text[i].s) = phrase

\* re.search(pattern, text, re.IGNORECASE | re.MULTILINE | re.DOTALL): the
\* leftmost place of the text where the expression matches, None if none
re_search(pattern, text) ==
    LET hits == {i \in 1..Len(text) :
                    /\ text[i].kind = "match"
                    /\ text[i].s = pattern.re
                    /\ Len(text[i].groups) = pattern.groups}
        first == CHOOSE i \in hits : \A j \in hits : i <= j
    IN  IF hits = {} THEN None ELSE Some(text[first].groups)

\* the mutant tries the strategies from the last to the first
RECURSIVE MutExtractLastPattern(_, _)
MutExtractLastPattern(text, patterns) ==
    IF patterns = <<>> THEN None
    ELSE LET match == re_search(patterns[Len(patterns)], text)
         IN  IF ~IsNone(match) THEN match
             ELSE MutExtractLastPattern(text, SubSeq(patterns, 1, Len(patterns) - 1))

\* _extract_with_multiple_patterns(text, patterns): match.groups() of the
\* first pattern, in list order, that matches
RECURSIVE extract_with_multiple_patterns(_, _)
extract_with_multiple_patterns(text, patterns) ==
    IF patterns = <<>> THEN None
    ELSE LET match == re_search(patterns[1], text)
         IN  IF ~IsNone(match) THEN match
             ELSE extract_with_multiple_patterns(text, Tail(patterns))

----------------------------------------------------------------------------
(* parse_pdf_content *)

Fields == {"card_number", "statement_date", "total_due", "due_date",
           "min_due", "credit_limit", "available_limit"}

\* the mutant falls back to the first profile for an unknown key
MutCatalogDefault(bank_key) ==
    IF bank_key \in DOMAIN COMPREHENSIVE_BANK_PATTERNS
    THEN Some(COMPREHENSIVE_BANK_PATTERNS[bank_key])
    ELSE Some(COMPREHENSIVE_BANK_PATTERNS["sbi"])

\* COMPREHENSIVE_BANK_PATTERNS.get(bank_key): None for an unknown key
catalog_get(bank_key) ==
    IF bank_key \in DOMAIN COMPREHENSIVE_BANK_PATTERNS
    THEN Some(COMPREHENSIVE_BANK_PATTERNS[bank_key])
    ELSE None

\* the empty dict {}: every .get() is None
EmptyDict ==
    [bank_name |-> None, card_last4 |-> None, statement_date |-> None,
     due_date |-> None, total_due |-> None, min_due |-> None,
     credit_limit |-> None, available_limit |-> None]

\* the mutant always takes the first group
MutFirstGroup(groups) == groups[1]

\* groups[0] if len(groups) == 1 else groups[-1]
last_group(groups) == IF Len(groups) = 1 THEN groups[1] ELSE groups[Len(groups)]

\* the optional amount fields: absent from the profile, or no match, is None
amount_field(text, patterns, field) ==
    IF field \notin DOMAIN patterns THEN None
    ELSE LET match == extract_with_multiple_patterns(text, patterns[field])
         IN  IF IsNone(match) THEN None
             ELSE clean_and_convert_amount(Some(last_group(Val(match))))

\* the places where parse_pdf_content raises: a mandatory key missing from
\* the profile (KeyError), group(1) or groups[-1] of a match without groups
\* (IndexError)
parse_raises(text, patterns) ==
    LET stmt == IF "statement_date" \in DOMAIN patterns
                THEN extract_with_multiple_patterns(text, patterns["statement_date"])
                ELSE None
        NoGroups(f) ==
            /\ f \in DOMAIN patterns
            /\ LET match == extract_with_multiple_patterns(text, patterns[f])
               IN  ~IsNone(match) /\ Len(Val(match)) = 0
    IN  \/ {"card_number", "due_date", "total_due"} \ DOMAIN patterns # {}
        \/ (~IsNone(stmt) /\ Len(Val(stmt)) = 0)
        \/ \E f \in {"due_date", "total_due", "min_due", "credit_limit",
                     "available_limit"} : NoGroups(f)

\* lines 450-495 of parse_pdf_content: what it does with the profile the
\* catalog gave it, None when the catalog has none: [raised, data]
parse_with_patterns(pdf_text, bank_name, got) ==
    LET patterns == Val(got)
        card_match == extract_with_multiple_patterns(pdf_text, patterns["card_number"])
        stmt_match == IF "statement_date" \in DOMAIN patterns
                      THEN extract_with_multiple_patterns(pdf_text, patterns["statement_date"])
                      ELSE None
        due_match == extract_with_multiple_patterns(pdf_text, patterns["due_date"])
    IN  IF IsNone(got) \/ DOMAIN Val(got) = {} THEN [raised |-> FALSE, data |-> EmptyDict]
        ELSE IF parse_raises(pdf_text, patterns) THEN [raised |-> TRUE, data |-> EmptyDict]
        ELSE [raised |-> FALSE, data |->
               [bank_name |-> Some(str_upper(bank_name)),
                card_last4 |->
                    IF IsNone(card_match) \/ Len(Val(card_match)) = 0 THEN None
                    ELSE Some(last_group(Val(card_match))),
                statement_date |->
                    IF IsNone(stmt_match) THEN None
                    ELSE clean_and_convert_date(Some(Val(stmt_match)[1]), None),
                due_date |->
                    IF IsNone(due_match) THEN None
                    ELSE clean_and_convert_date(Some(last_group(Val(due_match))), None),
                total_due |-> amount_field(pdf_text, patterns, "total_due"),
                min_due |-> amount_field(pdf_text, patterns, "min_due"),
                credit_limit |-> amount_field(pdf_text, patterns, "credit_limit"),
                available_limit |-> amount_field(pdf_text, patterns, "available_limit")]]

\* parse_pdf_content(pdf_text, bank_name): [raised, data]
parse_pdf_content(pdf_text, bank_name) ==
    parse_with_patterns(pdf_text, bank_name, catalog_get(str_lower(bank_name)))

----------------------------------------------------------------------------
(* _extract_text_from_pdf *)

\* text += page_text + "\n" for every page whose text is truthy; a page
\* without text is the empty sequence
RECURSIVE accumulate(_, _)
accumulate(text, pages) ==
    IF pages = <<>> THEN text
    ELSE accumulate(IF Head(pages) = <<>> THEN text ELSE text \o Head(pages), Tail(pages))

\* the except clause of the second method re-raises instead of returning None
MutExtractTextPropagates(pdf, password) ==
    LET first == accumulate(<<>>, pdf[password].plumber.pages)
        second == accumulate(first, pdf[password].pypdf.pages)
    IN  IF ~pdf[password].plumber.raises /\ HasVisibleText(first)
        THEN [raised |-> FALSE, text |-> Some(first)]
        ELSE IF pdf[password].pypdf.raises THEN [raised |-> TRUE, text |-> None]
        ELSE [raised |-> FALSE, text |-> Some(second)]

\* _extract_text_from_pdf(pdf_path, password).  pdf[password] is what the two
\* libraries do with the file and this password: the page texts each one
\* yields and whether it then raises (at open, at decrypt or at a page).
extract_text_from_pdf(pdf, password) ==
    LET first == accumulate(<<>>, pdf[password].plumber.pages)
        second == accumulate(first, pdf[password].pypdf.pages)
    IN  IF ~pdf[password].plumber.raises /\ HasVisibleText(first)
        THEN [raised |-> FALSE, text |-> Some(first)]
        ELSE IF pdf[password].pypdf.raises THEN [raised |-> FALSE, text |-> None]
        ELSE [raised |-> FALSE, text |-> Some(second)]

----------------------------------------------------------------------------
(* analyze_pdf *)

ReturnNone == [kind |-> "None", data |-> EmptyDict]
Raise == [kind |-> "raise", data |-> EmptyDict]
Return(d) == [kind |-> "record", data |-> d]

\* the mutant finds no essential field missing
MutNothingMissing(d) == {}

\* the essential fields with not parsed_data.get(field): None or the empty
\* string
missing_fields(d) ==
    {f \in {"card_last4", "due_date"} : IsNone(d[f])}
        \cup (IF d.card_last4 = Some(Str("")) THEN {"card_last4"} ELSE {})

\* lines 529-543: True when the record is to be rejected because the due
\* date is before the statement date; a ValueError is swallowed
due_before_statement(d) ==
    IF IsNone(d.statement_date) \/ IsNone(d.due_date) THEN FALSE
    ELSE LET stmt == strptime(Val(d.statement_date), ISO_FORMAT)
             due == strptime(Val(d.due_date), ISO_FORMAT)
         IN  IF IsNone(stmt) \/ IsNone(due) THEN FALSE
             ELSE datetime_lt(Val(due), Val(stmt))

\* the mutant applies the amortization guard to every institution
MutGuardEveryBank(pdf, password, bank_name, current_date) ==
    LET got == extract_text_from_pdf(pdf, password)
        pdf_text == Val(got.text)
        parsed == parse_pdf_content(pdf_text, bank_name)
        parsed_data_ == parsed.data
    IN  IF got.raised THEN Raise
        ELSE IF IsNone(got.text) \/ pdf_text = <<>> THEN ReturnNone
        ELSE IF ContainsLower(pdf_text, "amortization schedule") THEN ReturnNone
        ELSE IF parsed.raised THEN Raise
        ELSE IF missing_fields(parsed_data_) # {} THEN ReturnNone
        ELSE IF ~is_valid_date(parsed_data_.due_date, parsed_data_.statement_date,
                               current_date) THEN ReturnNone
        ELSE IF due_before_statement(parsed_data_) THEN ReturnNone
        ELSE Return(parsed_data_)

\* analyze_pdf(pdf_path, password, bank_name); current_date is the clock
\* at the call
analyze_pdf(pdf, password, bank_name, current_date) ==
    LET got == extract_text_from_pdf(pdf, password)
        pdf_text == Val(got.text)
        parsed == parse_pdf_content(pdf_text, bank_name)
        parsed_data_ == parsed.data
    IN  IF got.raised THEN Raise
        ELSE IF IsNone(got.text) \/ pdf_text = <<>> THEN ReturnNone
        ELSE IF str_lower(bank_name) = "icici"
                /\ ContainsLower(pdf_text, "amortization schedule") THEN ReturnNone
        ELSE IF parsed.raised THEN Raise
        ELSE IF missing_fields(parsed_data_) # {} THEN ReturnNone
        ELSE IF ~is_valid_date(parsed_data_.due_date, parsed_data_.statement_date,
                               current_date) THEN ReturnNone
        ELSE IF due_before_statement(parsed_data_) THEN ReturnNone
        ELSE Return(parsed_data_)

----------------------------------------------------------------------------
(* the bills table: init_db and insert_bill *)

\* the mutant has no fallback to the due date
MutNoDueDateFallback(bill_data) == bill_data.statement_date

\* bill_data.get('statement_date') or bill_data.get('due_date')
effective_statement_date(bill_data) ==
    IF IsNone(bill_data.statement_date) THEN bill_data.due_date
    ELSE bill_data.statement_date

\* UNIQUE(user, card_last4, statement_date): two rows conflict when the three
\* columns are equal and none is NULL
unique_conflict(r, q) ==
    /\ r.user = q.user
    /\ ~IsNone(r.card_last4) /\ r.card_last4 = q.card_last4
    /\ ~IsNone(r.statement_date) /\ r.statement_date = q.statement_date

\* insert_bill(conn, bill_data, user): INSERT OR IGNORE
insert_bill(rows, bill_data, user) ==
    LET row == [user |-> user,
                bank_name |-> bill_data.bank_name,
                card_last4 |-> bill_data.card_last4,
                statement_date |-> effective_statement_date(bill_data),
                total_due |-> bill_data.total_due,
                due_date |-> bill_data.due_date,
                min_due |-> bill_data.min_due,
                credit_limit |-> bill_data.credit_limit,
                available_limit |-> bill_data.available_limit]
    IN  IF \E i \in 1..Len(rows) : unique_conflict(rows[i], row) THEN rows
        ELSE Append(rows, row)

----------------------------------------------------------------------------
(* the clock *)

HalfDay == SecondsPerDay \div 2

\* the clock half a day later
later(t) ==
    IF t.second + HalfDay < SecondsPerDay
    THEN datetime(t.year, t.month, t.day, t.second + HalfDay)
    ELSE IF t.day < DaysInMonth(t.year, t.month)
    THEN datetime(t.year, t.month, t.day + 1, t.second + HalfDay - SecondsPerDay)
    ELSE IF t.month < 12
    THEN datetime(t.year, t.month + 1, 1, t.second + HalfDay - SecondsPerDay)
    ELSE datetime(t.year + 1, 1, 1, t.second + HalfDay - SecondsPerDay)

----------------------------------------------------------------------------
(* bounds and inputs *)

MaxTicks == 2       \* clock steps in a behaviour
MaxPasswords == 2   \* password candidates of a document
MaxPages == 2       \* page texts the two libraries yield for one password
MaxLines == 2       \* lines of a text handed to the extractor alone
MaxInserts == 3     \* insert_bill calls made on one table

StartTime == datetime(2026, 11, 5, 0)

\* the date n days after StartTime's
DateAt(n) ==
    CHOOSE d \in {datetime(y, m, dd, 0) : y \in 2024..2030, m \in 1..12, dd \in 1..31} :
        /\ d.day <= DaysInMonth(d.year, d.month)
        /\ toordinal(d) = toordinal(StartTime) + n

Slash(d) == DateStr("/", Num(d.day, 2), Num(d.month, 2), Num(d.year, 4))
SlashMonthFirst(d) == DateStr("/", Num(d.month, 2), Num(d.day, 2), Num(d.year, 4))

\* days from StartTime of the dates printed in the documents: around the
\* 550-day window, around today, two years ahead and the turn of the third year
DateOffsets == {-551, -550, -1, 0, 731, 732, 787, 788}

RawDates ==
    {Slash(DateAt(n)) : n \in DateOffsets}
        \cup {SlashMonthFirst(DateAt(20)),                   \* "11/25/2026"
              DateStr("/", Num(31, 2), Num(2, 2), Num(2027, 4))}  \* "31/02/2027"

Pattern(bank, field, i) == COMPREHENSIVE_BANK_PATTERNS[bank][field][i]

CardGroups(pattern, last4) ==
    IF pattern.groups = 1 THEN <<Str(last4)>> ELSE <<Str("4321"), Str(last4)>>

CardLine(bank, i, last4) ==
    MatchLine(Pattern(bank, "card_number", i).re,
              CardGroups(Pattern(bank, "card_number", i), last4))

\* index of the first strategy of the field that captures dd/mm/yyyy
SlashStrategy(bank, field) ==
    CASE bank = "sbi" /\ field = "due_date" -> 2
      [] bank = "sbi" /\ field = "statement_date" -> 3
      [] bank = "icici" -> 3
      [] bank = "kotak" /\ field = "statement_date" -> 3
      [] bank = "kotak" /\ field = "due_date" -> 4
      [] bank = "rbl" -> 3
      [] bank = "axis" /\ field = "due_date" -> 2
      [] OTHER -> 1

DateLine(bank, field, raw) ==
    MatchLine(Pattern(bank, field, SlashStrategy(bank, field)).re, <<raw>>)

Amount1 == Chars(<<"RUPEE", "1", ",", "2", "3", "4", ".", "5", "0">>)
Amount2 == Chars(<<"9", "9", ".", "0", "0">>)

AmountLine(bank, field, raw) == MatchLine(Pattern(bank, field, 1).re,
    IF Pattern(bank, field, 1).groups = 1 THEN <<raw>> ELSE <<Amount2, raw>>)

OptLine(present, line) == IF present THEN <<line>> ELSE <<>>

\* one page of a statement: the lines that are there, in print order
StatementPage(bank, card, stmt, due, total) ==
    OptLine(~IsNone(card), CardLine(bank, 1, Val(card)))
        \o OptLine(~IsNone(stmt), DateLine(bank, "statement_date", Val(stmt)))
        \o OptLine(~IsNone(due), DateLine(bank, "due_date", Val(due)))
        \o OptLine(~IsNone(total), AmountLine(bank, "total_due", Val(total)))

Yields(pages) == [pages |-> pages, raises |-> FALSE]
RaisesAfter(pages) == [pages |-> pages, raises |-> TRUE]

\* a password with which the layout-preserving library reads the pages
Opens(pages) == [plumber |-> Yields(pages), pypdf |-> Yields(pages)]
\* a password neither library accepts
Refused == [plumber |-> RaisesAfter(<<>>), pypdf |-> RaisesAfter(<<>>)]

Document(user, bank, pdf) == [user |-> user, bank |-> bank, pdf |-> pdf]

Opt(S) == {None} \cup {Some(x) : x \in S}

\* statements of one institution with every combination of card number,
\* statement date and due date
DocsDates ==
    {Document("rahul", "sbi", <<Opens(<<StatementPage("sbi", card, stmt, due, None)>>)>>) :
        card \in Opt({"5678"}), stmt \in Opt(RawDates), due \in Opt(RawDates)}

KnownBanks == DOMAIN COMPREHENSIVE_BANK_PATTERNS

BankNames == KnownBanks \cup {"SBI", "Axis", "ICICI", "Icici", "amex", "AMEX"}

ProfileOf(bank_name) ==
    IF str_lower(bank_name) \in KnownBanks THEN str_lower(bank_name) ELSE "sbi"

GoodPage(bank, last4) ==
    StatementPage(bank, Some(last4), Some(Slash(DateAt(-1))), Some(Slash(DateAt(0))),
                  Some(Amount1))

\* a statement no rule accepts: its due date is before its statement date
LatePage(bank) ==
    StatementPage(bank, Some("5678"), Some(Slash(DateAt(0))), Some(Slash(DateAt(-1))), None)

\* a statement without its due date
NoDuePage(bank) ==
    StatementPage(bank, Some("5678"), Some(Slash(DateAt(-1))), None, Some(Amount1))

Phrases == {"amortization schedule", "Amortization Schedule", "AMORTIZATION SCHEDULE"}

\* every institution identifier with a good statement, with and without the
\* phrase of the amortization guard
BankPages(b) ==
    {GoodPage(ProfileOf(b), "5678")}
        \cup {<<PhraseLine(p)>> \o GoodPage(ProfileOf(b), "5678") : p \in Phrases}

DocsBanks ==
    UNION {{Document(user, b, <<Opens(<<page>>)>>) :
                user \in {"rahul", "gulshan"}, page \in BankPages(b)} : b \in BankNames}

PageTexts == {<<>>, <<BlankLine>>, GoodPage("sbi", "5678"), GoodPage("sbi", "9012")}

RECURSIVE SeqsUpTo(_, _)
SeqsUpTo(S, n) ==
    IF n = 0 THEN {<<>>}
    ELSE SeqsUpTo(S, n - 1)
            \cup {Append(s, x) : s \in {t \in SeqsUpTo(S, n - 1) : Len(t) = n - 1}, x \in S}

\* every behaviour of the two libraries that yields at most MaxPages page
\* texts in all
DocsAdapter ==
    {Document("rahul", "sbi",
              <<[plumber |-> [pages |-> pq[1], raises |-> pr],
                 pypdf |-> [pages |-> pq[2], raises |-> qr]]>>) :
        pq \in {x \in SeqsUpTo(PageTexts, MaxPages) \X SeqsUpTo(PageTexts, MaxPages) :
                    Len(x[1]) + Len(x[2]) <= MaxPages},
        pr \in BOOLEAN, qr \in BOOLEAN}

Attempts ==
    {Refused,
     Opens(<< <<BlankLine>> >>),
     Opens(<<LatePage("sbi")>>),
     Opens(<<NoDuePage("sbi")>>),
     Opens(<<GoodPage("sbi", "5678")>>),
     Opens(<<GoodPage("sbi", "9012")>>)}

\* every list of at most MaxPasswords candidates, the empty list included
DocsPasswords ==
    {Document("rahul", "sbi", pdf) : pdf \in SeqsUpTo(Attempts, MaxPasswords)}

\* the date no calendar has, as the two-digit patterns capture it
NoSuchDate == DateStr("/", Num(31, 2), Num(2, 2), Num(2027, 4))   \* "31/02/2027"

\* a line where the i-th strategy of a date field matches
DateLineOf(bank, field, i, raw) == MatchLine(Pattern(bank, field, i).re, <<raw>>)

\* statements where the first matching strategy of a date field captures
\* text that is no date, alone or followed by a place where a later strategy
\* captures a date
UnparsablePages ==
    LET card == CardLine("sbi", 1, "5678")
        total == AmountLine("sbi", "total_due", Amount1)
        stmt(raw) == DateLineOf("sbi", "statement_date", 3, raw)
        due(raw) == DateLineOf("sbi", "due_date", 2, raw)
    IN  { <<card, stmt(Slash(DateAt(-1))), due(NoSuchDate), total>>,
          <<card, stmt(Slash(DateAt(-1))), due(NoSuchDate),
            DateLineOf("sbi", "due_date", 6, Slash(DateAt(0))), total>>,
          <<card, stmt(NoSuchDate), due(Slash(DateAt(0))), total>>,
          <<card, stmt(NoSuchDate),
            DateLineOf("sbi", "statement_date", 4,
                       DateStr("-", Num(6, 2), Num(11, 2), Num(2026, 4))),
            due(Slash(DateAt(0))), total>>,
          <<card, stmt(NoSuchDate), due(NoSuchDate), total>> }

DocsUnparsable ==
    {Document("rahul", "sbi", <<Opens(<<page>>)>>) : page \in UnparsablePages}

Documents ==
    DocsDates \cup DocsBanks \cup DocsAdapter \cup DocsPasswords \cup DocsUnparsable

----------------------------------------------------------------------------
(* main(): the body of the loop over e-mails, lines 176-221 *)

NoCall == [fn |-> "none"]

\* main() names the temporary file after the attachment: temp_<filename>
FileNames == {"temp_statement.pdf", "temp_bill.pdf"}

\* no temporary file exists
NoFiles == [n \in FileNames |-> None]

Init ==
    /\ doc \in Documents
    /\ now = StartTime
    /\ run = 1
    /\ pc = "start"
    /\ idx = 1
    /\ parsed_data = ReturnNone
    /\ log = <<>>
    /\ outcome = <<>>
    /\ bills = <<>>
    /\ call = NoCall
    /\ ret = None
    /\ files = NoFiles
    /\ procs = <<>>

\* lines 189-197: no password for the institution skips the e-mail
StartDocument ==
    /\ pc = "start"
    /\ idx' = 1
    /\ log' = <<>>
    /\ IF Len(doc.pdf) = 0
       THEN /\ pc' = "done"
            /\ outcome' = Append(outcome, [result |-> ReturnNone, log |-> <<>>])
            /\ UNCHANGED parsed_data
       ELSE /\ pc' = "loop"
            /\ parsed_data' = ReturnNone
            /\ UNCHANGED outcome
    /\ UNCHANGED <<doc, now, run, bills, call, ret, files, procs>>

LogEntry(result) == [password |-> idx, at |-> now, result |-> result]

\* the mutant leaves the loop as soon as a candidate gave some text
MutTryPasswordStopAtText ==
    /\ pc = "loop"
    /\ LET result == analyze_pdf(doc.pdf, idx, doc.bank, now)
           text == extract_text_from_pdf(doc.pdf, idx).text
       IN  /\ parsed_data' = result
           /\ log' = Append(log, LogEntry(result))
           /\ IF (~IsNone(text) /\ Val(text) # <<>>) \/ idx = Len(doc.pdf)
              THEN pc' = "after" /\ idx' = idx
              ELSE pc' = "loop" /\ idx' = idx + 1
    /\ UNCHANGED <<doc, now, run, outcome, bills, call, ret, files, procs>>

\* the mutant has no break: every candidate is tried
MutTryPasswordNoBreak ==
    /\ pc = "loop"
    /\ LET result == analyze_pdf(doc.pdf, idx, doc.bank, now)
       IN  /\ parsed_data' = result
           /\ log' = Append(log, LogEntry(result))
           /\ IF idx = Len(doc.pdf)
              THEN pc' = "after" /\ idx' = idx
              ELSE pc' = "loop" /\ idx' = idx + 1
    /\ UNCHANGED <<doc, now, run, outcome, bills, call, ret, files, procs>>

\* lines 198-212: one iteration of the loop over passwords_to_try
TryPassword ==
    /\ pc = "loop"
    /\ LET result == analyze_pdf(doc.pdf, idx, doc.bank, now)
       IN  IF result.kind = "raise"
           THEN /\ pc' = "crashed"
                /\ UNCHANGED <<idx, parsed_data, log>>
           ELSE /\ parsed_data' = result
                /\ log' = Append(log, LogEntry(result))
                /\ IF result.kind = "record" \/ idx = Len(doc.pdf)
                   THEN pc' = "after" /\ idx' = idx
                   ELSE pc' = "loop" /\ idx' = idx + 1
    /\ UNCHANGED <<doc, now, run, outcome, bills, call, ret, files, procs>>

\* lines 214-221: the accepted record is inserted
StoreResult ==
    /\ pc = "after"
    /\ pc' = "done"
    /\ bills' = IF parsed_data.kind = "record"
                THEN insert_bill(bills, parsed_data.data, doc.user)
                ELSE bills
    /\ outcome' = Append(outcome, [result |-> parsed_data, log |-> log])
    /\ UNCHANGED <<doc, now, run, idx, parsed_data, log, call, ret, files, procs>>

\* the same e-mail is processed a second time, by a later run of the program
NextRun ==
    /\ pc = "done"
    /\ run = 1
    /\ run' = run + 1
    /\ pc' = "start"
    /\ UNCHANGED <<doc, now, idx, parsed_data, log, outcome, bills, call, ret, files, procs>>

Ticks(t) == 2 * (toordinal(t) - toordinal(StartTime)) + (t.second \div HalfDay)

\* time passes; only analyze_pdf reads the clock, so the steps that matter
\* are those before one of its calls
Tick ==
    /\ pc \in {"start", "loop"}
    /\ Ticks(now) < MaxTicks
    /\ now' = later(now)
    /\ UNCHANGED <<doc, run, pc, idx, parsed_data, log, outcome, bills, call, ret, files, procs>>

Next == StartDocument \/ TryPassword \/ StoreResult \/ NextRun \/ Tick

Spec == Init /\ [][Next]_vars

----------------------------------------------------------------------------
(* _is_valid_date on its own: the arguments are drawn in the initial state *)

Idle == Document("rahul", "sbi", <<>>)

Calendar ==
    {d \in {datetime(y, m, dd, 0) : y \in 2022..2031, m \in 1..12, dd \in 1..31} :
        d.day <= DaysInMonth(d.year, d.month)}

\* the date n days after t's
Plus(t, n) == CHOOSE d \in Calendar : toordinal(d) = toordinal(t) + n

TimesOfDay == {0, 1, HalfDay, SecondsPerDay - 1}

ClockDates ==
    {datetime(2026, 11, 5, 0), datetime(2026, 1, 1, 0), datetime(2026, 12, 31, 0),
     datetime(2024, 2, 28, 0), datetime(2027, 3, 1, 0)}

ClockTimes ==
    {datetime(d.year, d.month, d.day, s) : d \in ClockDates, s \in TimesOfDay}

\* days between the clock's date and the due date: around the 550-day
\* window, around today, around two years ahead, around three years ahead
DueOffsets == (-552..-548) \cup (-1..1) \cup (729..733) \cup (1094..1097)

\* the statement date, in days from the due date; "none" for no statement date
StatementOffsets == {-1, 0, 1}

InitValidate ==
    /\ \E t \in ClockTimes, k \in DueOffsets :
         \E stmt \in {None} \cup {Some(strftime_iso(Plus(t, k + j))) : j \in StatementOffsets} :
            call = [fn |-> "is_valid_date",
                    date_str |-> Some(strftime_iso(Plus(t, k))),
                    statement_date_str |-> stmt,
                    current_date |-> t]
    /\ ret = None
    /\ doc = Idle /\ now = StartTime /\ run = 1 /\ pc = "harness" /\ idx = 1
    /\ parsed_data = ReturnNone /\ log = <<>> /\ outcome = <<>> /\ bills = <<>>
    /\ files = NoFiles /\ procs = <<>>

ApplyIsValidDate ==
    /\ pc = "harness"
    /\ call.fn = "is_valid_date"
    /\ IsNone(ret)
    /\ ret' = Some(is_valid_date(call.date_str, call.statement_date_str, call.current_date))
    /\ UNCHANGED <<doc, now, run, pc, idx, parsed_data, log, outcome, bills, call, files, procs>>

NextValidate == ApplyIsValidDate

SpecValidate == InitValidate /\ [][NextValidate]_vars

----------------------------------------------------------------------------
(* _extract_with_multiple_patterns on its own *)

RawValues(field) ==
    IF field = "card_number" THEN {Str("5678"), Str("9012")}
    ELSE IF field \in {"statement_date", "due_date"}
    THEN {Slash(DateAt(0)), Slash(DateAt(-1))}
    ELSE {Amount1, Amount2}

GroupsOf(pattern, field, v) ==
    IF pattern.groups = 1 THEN <<v>>
    ELSE <<CHOOSE x \in RawValues(field) : x # v, v>>

\* the lines a text can have for a field of a profile: one for each strategy
\* and captured value, and a blank line
FieldLines(bank, field) ==
    {BlankLine} \cup
    {MatchLine(Pattern(bank, field, i).re, GroupsOf(Pattern(bank, field, i), field, v)) :
        i \in 1..Len(COMPREHENSIVE_BANK_PATTERNS[bank][field]), v \in RawValues(field)}

InitExtract ==
    /\ \E bank \in KnownBanks, field \in Fields :
         \E text \in SeqsUpTo(FieldLines(bank, field), MaxLines) :
            call = [fn |-> "extract_with_multiple_patterns",
                    text |-> text,
                    patterns |-> COMPREHENSIVE_BANK_PATTERNS[bank][field]]
    /\ ret = None
    /\ doc = Idle /\ now = StartTime /\ run = 1 /\ pc = "harness" /\ idx = 1
    /\ parsed_data = ReturnNone /\ log = <<>> /\ outcome = <<>> /\ bills = <<>>
    /\ files = NoFiles /\ procs = <<>>

ApplyExtract ==
    /\ pc = "harness"
    /\ call.fn = "extract_with_multiple_patterns"
    /\ IsNone(ret)
    /\ ret' = Some(extract_with_multiple_patterns(call.text, call.patterns))
    /\ UNCHANGED <<doc, now, run, pc, idx, parsed_data, log, outcome, bills, call, files, procs>>

NextExtract == ApplyExtract

SpecExtract == InitExtract /\ [][NextExtract]_vars

----------------------------------------------------------------------------
(* what the claims speak of *)

\* every analyze_pdf call made so far, in this run and in the earlier ones
Entries ==
    {log[i] : i \in 1..Len(log)}
        \cup UNION {{outcome[r].log[i] : i \in 1..Len(outcome[r].log)} : r \in 1..Len(outcome)}

Accepted(e) == e.result.kind = "record"
Rejected(e) == e.result.kind = "None"

\* the text the adapter returns to a call
TextOf(e) == extract_text_from_pdf(doc.pdf, e.password).text

\* the call got some text: pdf_text is neither None nor ""
GotText(e) == ~IsNone(TextOf(e)) /\ Val(TextOf(e)) # <<>>

\* what extraction and normalization make of the text of a call
Extracted(e) == parse_pdf_content(Val(TextOf(e)), doc.bank).data

\* a canonical 'YYYY-MM-DD' string as a number that orders like the calendar
DayNumber(s) == s.toks[1].v * 10000 + s.toks[2].v * 100 + s.toks[3].v

Applied(fn) == pc = "harness" /\ call.fn = fn /\ ~IsNone(ret)

----------------------------------------------------------------------------
\* C1  Mandatory-field law: every record analyze_pdf returns has a card_last4
\* that is neither absent nor empty and a due_date that is not absent; a text
\* whose extraction leaves either of them missing gives None.
MandatoryFields ==
    \A e \in Entries :
        LET text == TextOf(e)
            got == ~IsNone(text) /\ Val(text) # <<>>
            extracted == parse_pdf_content(Val(text), doc.bank).data
        IN  /\ Accepted(e) =>
                  /\ ~IsNone(e.result.data.card_last4)
                  /\ Val(e.result.data.card_last4).str # ""
                  /\ ~IsNone(e.result.data.due_date)
            /\ (got /\ (IsNone(extracted.card_last4) \/ IsNone(extracted.due_date)))
                  => Rejected(e)

\* a call rejected for its missing due date, then a call that returned a record
MandatoryFieldsWitness ==
    /\ Len(log) = 2
    /\ GotText(log[1]) /\ IsNone(Extracted(log[1]).due_date) /\ Rejected(log[1])
    /\ Accepted(log[2]) /\ ~IsNone(log[2].result.data.card_last4)

\* C2  Chronology law: in every record analyze_pdf returns with a statement
\* date, the due date is on or after the statement date; a text whose due
\* date comes out strictly before its statement date gives None.
Chronology ==
    \A e \in Entries :
        LET text == TextOf(e)
            got == ~IsNone(text) /\ Val(text) # <<>>
            extracted == parse_pdf_content(Val(text), doc.bank).data
        IN  /\ (Accepted(e) /\ ~IsNone(e.result.data.statement_date)) =>
                  DayNumber(Val(e.result.data.due_date))
                      >= DayNumber(Val(e.result.data.statement_date))
            /\ (/\ got
                /\ ~IsNone(extracted.statement_date)
                /\ ~IsNone(extracted.due_date)
                /\ DayNumber(Val(extracted.due_date))
                      < DayNumber(Val(extracted.statement_date)))
                  => Rejected(e)

\* a record accepted with its due date after its statement date
ChronologyWitness ==
    \E e \in Entries :
        /\ Accepted(e)
        /\ ~IsNone(e.result.data.statement_date)
        /\ DayNumber(Val(e.result.data.due_date))
              > DayNumber(Val(e.result.data.statement_date))

\* the due date and the clock's date of a call of the validator
DueDay == DayNumber(Val(call.date_str))
TwoYearsAhead ==
    (call.current_date.year + 2) * 10000 + call.current_date.month * 100
        + call.current_date.day
DaysOld == toordinal(call.current_date) - toordinal(Val(strptime(Val(call.date_str), ISO_FORMAT)))

\* C3  Future bound: the validator rejects every due date more than two
\* calendar years after the clock's date, and accepts the date exactly two
\* years ahead.  The code compares the years only: it fails.
FutureBound ==
    Applied("is_valid_date") =>
        /\ DueDay > TwoYearsAhead => Val(ret) = FALSE
        /\ (DueDay = TwoYearsAhead /\ IsNone(call.statement_date_str)) => Val(ret) = TRUE

\* C4  Past bound: the validator rejects every due date more than 550 days
\* before the clock's date and, with no statement date, accepts the one
\* exactly 550 days before it, at every time of day.
PastBound ==
    Applied("is_valid_date") =>
        /\ DaysOld > 550 => Val(ret) = FALSE
        /\ (DaysOld = 550 /\ IsNone(call.statement_date_str)) => Val(ret) = TRUE

\* a due date exactly 550 days old accepted in the last second of the day
PastBoundWitness ==
    /\ Applied("is_valid_date")
    /\ DaysOld = 550
    /\ call.current_date.second = SecondsPerDay - 1
    /\ Val(ret) = TRUE

SameDay(a, b) == a.year = b.year /\ a.month = b.month /\ a.day = b.day

\* C5 as claimed  Determinism: two invocations on the same document give the
\* same outcome, whenever each of them runs.
Determinism ==
    Len(outcome) >= 2 => outcome[1].result = outcome[2].result

\* C5 as amended  Two invocations on the same document whose analyze_pdf
\* calls all read the same calendar date from the clock give the same
\* outcome, at whatever times of that day they run.
DeterminismOnOneDay ==
    \A r \in 1..Len(outcome), q \in 1..Len(outcome) :
        (\A i \in 1..Len(outcome[r].log), j \in 1..Len(outcome[q].log) :
            SameDay(outcome[r].log[i].at, outcome[q].log[j].at))
        => outcome[r].result = outcome[q].result

\* two invocations at different times of one day, a record from both, whose
\* due date is exactly 550 days old
DeterminismOnOneDayWitness ==
    /\ Len(outcome) >= 2
    /\ Len(outcome[1].log) = 1 /\ Len(outcome[2].log) = 1
    /\ SameDay(outcome[1].log[1].at, outcome[2].log[1].at)
    /\ outcome[1].log[1].at # outcome[2].log[1].at
    /\ outcome[1].result.kind = "record"
    /\ outcome[1].result = outcome[2].result
    /\ toordinal(outcome[1].log[1].at)
          - toordinal(Val(strptime(Val(outcome[1].result.data.due_date), ISO_FORMAT))) = 550

\* the strategies of the call that match its text
Matching == {i \in 1..Len(call.patterns) : ~IsNone(re_search(call.patterns[i], call.text))}

\* C6  Fallback ordering: the result of _extract_with_multiple_patterns is
\* the match of the lowest-indexed strategy that matches the text, whole and
\* unmerged, and no match when no strategy matches.
FallbackOrdering ==
    Applied("extract_with_multiple_patterns") =>
        IF Matching = {} THEN IsNone(Val(ret))
        ELSE \E i \in Matching :
                /\ \A j \in Matching : i <= j
                /\ Val(ret) = re_search(call.patterns[i], call.text)

\* an earlier and a later strategy both match, with different captures, and
\* the later one's line comes first in the text
FallbackOrderingWitness ==
    /\ Applied("extract_with_multiple_patterns")
    /\ \E i \in Matching, j \in Matching :
          /\ i < j
          /\ re_search(call.patterns[i], call.text) # re_search(call.patterns[j], call.text)
          /\ Val(ret) = re_search(call.patterns[i], call.text)
          /\ call.text[1].s = call.patterns[j].re

\* C7  analyze_pdf never raises: every call ends in a record or in None,
\* whatever the libraries do and whatever the institution is.
NeverRaises ==
    /\ pc # "crashed"
    /\ \A e \in Entries : Accepted(e) \/ Rejected(e)

\* both libraries raised on the candidate and the call returned None
NeverRaisesWitness ==
    \E e \in Entries :
        /\ doc.pdf[e.password].plumber.raises
        /\ doc.pdf[e.password].pypdf.raises
        /\ Rejected(e)

LoopEnded == pc \in {"after", "done"} /\ Len(log) > 0

UnknownInstitution ==
    \A e \in Entries : str_lower(doc.bank) \notin KnownBanks => Rejected(e)

\* a text that is a good statement for a known institution, handed in under
\* an identifier without profile
UnknownInstitutionWitness ==
    \E e \in Entries :
        /\ doc.bank = "AMEX"
        /\ GotText(e)
        /\ ~IsNone(parse_pdf_content(Val(TextOf(e)), "sbi").data.due_date)
        /\ Rejected(e)


----------------------------------------------------------------------------
(* parse_pdf_content with a profile that leaves fields out: the profile a
   new institution could add to the catalog *)

\* the profile without the fields of the set omitted (a dict without the keys)
Without(profile, omitted) == [f \in DOMAIN profile \ omitted |-> profile[f]]

\* the profiles to add: a catalog profile with at most one field left out
Omissions == {{}} \cup {{f} : f \in Fields}

ProfileTexts(bank) == {GoodPage(bank, "5678"), NoDuePage(bank)}

InitProfile ==
    /\ \E bank \in KnownBanks, omitted \in Omissions :
         \E text \in ProfileTexts(bank) :
            call = [fn |-> "parse_with_patterns",
                    pdf_text |-> text,
                    bank_name |-> bank,
                    omitted |-> omitted]
    /\ ret = None
    /\ doc = Idle /\ now = StartTime /\ run = 1 /\ pc = "harness" /\ idx = 1
    /\ parsed_data = ReturnNone /\ log = <<>> /\ outcome = <<>> /\ bills = <<>>
    /\ files = NoFiles /\ procs = <<>>

ApplyParseWithPatterns ==
    /\ pc = "harness"
    /\ call.fn = "parse_with_patterns"
    /\ IsNone(ret)
    /\ ret' = Some(parse_with_patterns(call.pdf_text, call.bank_name,
                      Some(Without(COMPREHENSIVE_BANK_PATTERNS[call.bank_name],
                                   call.omitted))))
    /\ UNCHANGED <<doc, now, run, pc, idx, parsed_data, log, outcome, bills, call, files, procs>>

NextProfile == ApplyParseWithPatterns

SpecProfile == InitProfile /\ [][NextProfile]_vars

\* the key of the record that a field of the profile fills
ResultKey(field) == IF field = "card_number" THEN "card_last4" ELSE field

\* C11  A profile that leaves a field out behaves as if the field's strategy
\* list were empty: parse_pdf_content does not raise, leaves that field
\* absent and fills the other fields as the full profile does.  The code
\* indexes card_number, due_date and total_due without a default: it fails.
OmittedFieldAbsent ==
    (/\ Applied("parse_with_patterns")
     /\ call.omitted \subseteq {"statement_date", "total_due", "min_due", "credit_limit",
                                "available_limit"}) =>
        /\ ~Val(ret).raised
        /\ \A f \in Fields :
              Val(ret).data[ResultKey(f)] =
                  IF f \in call.omitted THEN None
                  ELSE parse_pdf_content(call.pdf_text, call.bank_name).data[ResultKey(f)]

----------------------------------------------------------------------------
(* _clean_and_convert_date on its own: a date rendered in a supported format *)

\* one directive of dt.strftime(fmt): %d and %m are zero-padded to two digits
Render(dir, dt) ==
    CASE dir = "d" -> Num(dt.day, 2)
      [] dir = "m" -> Num(dt.month, 2)
      [] dir = "Y" -> Num(dt.year, Digits(dt.year))
      [] dir = "b" -> Abbr(dt.month)
      [] dir = "B" -> Full(dt.month)

\* dt.strftime(fmt) for a format of DATE_FORMATS
strftime(dt, fmt) ==
    DateStr(fmt.sep, Render(fmt.dirs[1], dt), Render(fmt.dirs[2], dt), Render(fmt.dirs[3], dt))

\* the dates rendered: every day of a leap year and of a common year
RenderedDates == {d \in Calendar : d.year \in {2024, 2026}}

InitDate ==
    /\ \E d \in RenderedDates, i \in 1..Len(DATE_FORMATS) :
          call = [fn |-> "clean_and_convert_date",
                  date |-> d,
                  format |-> i,
                  date_str |-> Some(strftime(d, DATE_FORMATS[i]))]
    /\ ret = None
    /\ doc = Idle /\ now = StartTime /\ run = 1 /\ pc = "harness" /\ idx = 1
    /\ parsed_data = ReturnNone /\ log = <<>> /\ outcome = <<>> /\ bills = <<>>
    /\ files = NoFiles /\ procs = <<>>

ApplyCleanAndConvertDate ==
    /\ pc = "harness"
    /\ call.fn = "clean_and_convert_date"
    /\ IsNone(ret)
    /\ ret' = Some(clean_and_convert_date(call.date_str, None))
    /\ UNCHANGED <<doc, now, run, pc, idx, parsed_data, log, outcome, bills, call, files, procs>>

NextDate == ApplyCleanAndConvertDate

SpecDate == InitDate /\ [][NextDate]_vars

\* the canonical string of the date rendered
Canonical(dt) ==
    DateStr("-", Num(dt.year, 4), Num(dt.month, 2), Num(dt.day, 2))

\* the rendering is the month-first numeric one, '%m/%d/%Y'
MonthFirst == DATE_FORMATS[call.format] = [sep |-> "/", dirs |-> <<"m", "d", "Y">>]

\* C12 as claimed  Date round-trip: the rendering of a date in any format
\* of DATE_FORMATS normalizes to the canonical string of that date.
DateRoundTrip ==
    Applied("clean_and_convert_date") => Val(ret) = Some(Canonical(call.date))

\* C12 as amended  The rendering of a date in any format other than
\* '%m/%d/%Y' normalizes to the canonical string of that date; a month-first
\* rendering does so only when its day is above 12 or equals its month, and
\* is otherwise read day-first, giving the date with day and month exchanged.
DateRoundTripDayFirst ==
    Applied("clean_and_convert_date") =>
        IF MonthFirst /\ call.date.day <= 12
        THEN Val(ret) = Some(Canonical(datetime(call.date.year, call.date.day,
                                                call.date.month, 0)))
        ELSE Val(ret) = Some(Canonical(call.date))

\* 5 November rendered month-first, "11/05/2026", comes out as 11 May
DateRoundTripDayFirstWitness ==
    /\ Applied("clean_and_convert_date")
    /\ MonthFirst
    /\ call.date = datetime(2026, 11, 5, 0)
    /\ Val(ret) = Some(Canonical(datetime(2026, 5, 11, 0)))

----------------------------------------------------------------------------
(* _clean_and_convert_amount on its own *)

\* amounts with their plain and their grouped rendering and their value
\* m * 10^(-e)
Amounts ==
    { [plain |-> <<"1", "2", "3", "4", "5", "6", ".", "7", "8">>,
       grouped |-> <<"1", ",", "2", "3", ",", "4", "5", "6", ".", "7", "8">>,
       m |-> 12345678, e |-> 2],
      [plain |-> <<"9", "9", ".", "0", "0">>,
       grouped |-> <<"9", "9", ".", "0", "0">>,
       m |-> 99, e |-> 0],
      [plain |-> <<"1", "2", "3", "4", ".", "5", "0">>,
       grouped |-> <<"1", ",", "2", "3", "4", ".", "5", "0">>,
       m |-> 12345, e |-> 1],
      [plain |-> <<"5", "0", "0", "0">>,
       grouped |-> <<"5", ",", "0", "0", "0">>,
       m |-> 5000, e |-> 0] }

Glyphs == {<<>>, <<"RUPEE">>, <<"$">>}

Whitespace == {<<>>, <<" ">>}

\* the renderings of an amount: with or without a currency glyph, grouping
\* commas and surrounding whitespace
Renderings(a) ==
    {lead \o glyph \o digits \o trail :
        lead \in Whitespace, glyph \in Glyphs, digits \in {a.plain, a.grouped},
        trail \in Whitespace}

\* strings that are no plain decimal once glyphs, commas and whitespace are
\* removed
Malformed ==
    { <<"a", "b", "c">>, <<"1", ".", "2", ".", "3">>, <<"RUPEE">>, <<",">>,
      <<"1", "e", "5">>, <<"1", "E", "5">>, <<"1", "_", "0", "0", "0">>,
      <<"i", "n", "f">>, <<"I", "n", "f", "i", "n", "i", "t", "y">>, <<"n", "a", "n">>,
      <<"N", "a", "N">>, <<"1", "2", "x">>, <<"1", "e">>, <<"-">>, <<".">> }

InitAmount ==
    /\ \/ \E a \in Amounts : \E s \in Renderings(a) :
             call = [fn |-> "clean_and_convert_amount", amount_str |-> Some(Chars(s)),
                     of |-> Some([m |-> a.m, e |-> a.e])]
       \/ \E s \in Malformed :
             call = [fn |-> "clean_and_convert_amount", amount_str |-> Some(Chars(s)),
                     of |-> None]
    /\ ret = None
    /\ doc = Idle /\ now = StartTime /\ run = 1 /\ pc = "harness" /\ idx = 1
    /\ parsed_data = ReturnNone /\ log = <<>> /\ outcome = <<>> /\ bills = <<>>
    /\ files = NoFiles /\ procs = <<>>

ApplyCleanAndConvertAmount ==
    /\ pc = "harness"
    /\ call.fn = "clean_and_convert_amount"
    /\ IsNone(ret)
    /\ ret' = Some(clean_and_convert_amount(call.amount_str))
    /\ UNCHANGED <<doc, now, run, pc, idx, parsed_data, log, outcome, bills, call, files, procs>>

NextAmount == ApplyCleanAndConvertAmount

SpecAmount == InitAmount /\ [][NextAmount]_vars

\* digits, or digits "." digits
IsPlainDecimal(cs) ==
    /\ Len(cs) > 0
    /\ \A i \in 1..Len(cs) : cs[i] \in DigitChars \cup {"."}
    /\ Cardinality({i \in 1..Len(cs) : cs[i] = "."}) <= 1
    /\ cs[1] # "." /\ cs[Len(cs)] # "."

\* C13  Amount normalization is total and canonical: every rendering of an
\* amount normalizes to that amount, and every string that is no plain
\* decimal after stripping gives absence.  float() also reads exponents,
\* underscores, "inf" and "nan": it fails.
AmountCanonical ==
    Applied("clean_and_convert_amount") =>
        /\ ~IsNone(call.of) =>
              Val(ret) = Some([kind |-> "finite", m |-> Val(call.of).m, e |-> Val(call.of).e])
        /\ ~IsPlainDecimal(SelectSeq(Val(call.amount_str).chars, KeepChar)) =>
              IsNone(Val(ret))

----------------------------------------------------------------------------
(* the bills table under a sequence of insert_bill calls *)

USERS == {"rahul", "gulshan"}

\* a record as analyze_pdf returns it
Record(card, stmt, due) ==
    [EmptyDict EXCEPT !.bank_name = Some("SBI"), !.card_last4 = Some(Str(card)),
                      !.statement_date = stmt, !.due_date = Some(due)]

\* accepted records of two cards: without statement date, and with a
\* statement date that is another record's due date
StoreRecords ==
    {Record(card, dates[1], dates[2]) :
        card \in {"5678", "9012"},
        dates \in { <<None, Canonical(DateAt(-1))>>,
                    <<Some(Canonical(DateAt(-1))), Canonical(DateAt(0))>>,
                    <<Some(Canonical(DateAt(0))), Canonical(DateAt(0))>> }}

InitStore ==
    /\ bills = <<>>
    /\ log = <<>>
    /\ call = NoCall
    /\ ret = None
    /\ doc = Idle /\ now = StartTime /\ run = 1 /\ pc = "harness" /\ idx = 1
    /\ parsed_data = ReturnNone /\ outcome = <<>>
    /\ files = NoFiles /\ procs = <<>>

\* one call insert_bill(conn, bill_data, user); call keeps the table as it was
InsertBill ==
    /\ pc = "harness"
    /\ Len(log) < MaxInserts
    /\ \E bill_data \in StoreRecords, user \in USERS :
          /\ bills' = insert_bill(bills, bill_data, user)
          /\ call' = [fn |-> "insert_bill", bill_data |-> bill_data, user |-> user,
                      before |-> bills]
          /\ log' = Append(log, [bill_data |-> bill_data, user |-> user])
    /\ UNCHANGED <<doc, now, run, pc, idx, parsed_data, outcome, ret, files, procs>>

NextStore == InsertBill

SpecStore == InitStore /\ [][NextStore]_vars

\* the key of a record: user, card and the statement date or, without one,
\* the due date
KeyOf(bill_data, user) ==
    <<user, bill_data.card_last4,
      IF IsNone(bill_data.statement_date) THEN bill_data.due_date
      ELSE bill_data.statement_date>>

\* the key of a stored row
RowKey(row) == <<row.user, row.card_last4, row.statement_date>>

\* C14  Deduplicating store: the table never holds two rows with the same
\* (user, card_last4, effective statement date); every record inserted has
\* a row with its key; a call whose key is already there leaves the table
\* unchanged and any other call appends one row.
DeduplicatingStore ==
    /\ \A i \in 1..Len(bills), j \in 1..Len(bills) :
          RowKey(bills[i]) = RowKey(bills[j]) => i = j
    /\ \A k \in 1..Len(log) :
          \E i \in 1..Len(bills) : RowKey(bills[i]) = KeyOf(log[k].bill_data, log[k].user)
    /\ call # NoCall =>
          IF \E i \in 1..Len(call.before) :
                RowKey(call.before[i]) = KeyOf(call.bill_data, call.user)
          THEN bills = call.before
          ELSE /\ Len(bills) = Len(call.before) + 1
               /\ SubSeq(bills, 1, Len(call.before)) = call.before
               /\ bills[Len(bills)].due_date = call.bill_data.due_date

\* a record without statement date, then a different record of the same
\* card whose statement date is the first one's due date: one row
DeduplicatingStoreWitness ==
    /\ Len(log) = 2
    /\ IsNone(log[1].bill_data.statement_date)
    /\ log[2].bill_data.statement_date = log[1].bill_data.due_date
    /\ log[1].user = log[2].user
    /\ log[1].bill_data.card_last4 = log[2].bill_data.card_last4
    /\ Len(bills) = 1
    /\ bills[1].due_date = log[1].bill_data.due_date

----------------------------------------------------------------------------
(* two invocations of the loop body of main(), lines 198-212, interleaved:
   each writes the attachment to temp_<filename> in the working directory,
   analyzes that file and removes it.  Each e-mail has one password. *)

\* an attachment: what the libraries do with its bytes and the password
Attachments ==
    { <<Opens(<<GoodPage("sbi", "5678")>>)>>,
      <<Opens(<<GoodPage("sbi", "9012")>>)>>,
      <<Opens(<<LatePage("sbi")>>)>>,
      <<Refused>> }

Email(filename, pdf_data) ==
    [filename |-> filename, pdf_data |-> pdf_data, bank |-> "sbi"]

\* the file just opened for writing: no library can read it
EmptyFile == <<Refused>>

\* what analyze_pdf finds at the path: the bytes last written, an empty
\* file, or no file, which both libraries refuse
FileAt(path) == IF IsNone(files[path]) THEN EmptyFile ELSE Val(files[path])

InitConcurrent ==
    /\ \E f1 \in FileNames, f2 \in FileNames, a1 \in Attachments, a2 \in Attachments :
          /\ a1 # a2
          /\ procs = << [email |-> Email(f1, a1), pc |-> "open", result |-> ReturnNone],
                        [email |-> Email(f2, a2), pc |-> "open", result |-> ReturnNone] >>
    /\ files = NoFiles
    /\ call = NoCall /\ ret = None
    /\ doc = Idle /\ now = StartTime /\ run = 1 /\ pc = "concurrent" /\ idx = 1
    /\ parsed_data = ReturnNone /\ log = <<>> /\ outcome = <<>> /\ bills = <<>>

\* line 201: open(temp_pdf_path, 'wb') creates or truncates the file
OpenTemp(p) ==
    /\ procs[p].pc = "open"
    /\ files' = [files EXCEPT ![procs[p].email.filename] = Some(EmptyFile)]
    /\ procs' = [procs EXCEPT ![p].pc = "write"]

\* line 202: f.write(email['pdf_data']) and the end of the with block
WriteTemp(p) ==
    /\ procs[p].pc = "write"
    /\ files' = [files EXCEPT ![procs[p].email.filename] = Some(procs[p].email.pdf_data)]
    /\ procs' = [procs EXCEPT ![p].pc = "analyze"]

\* line 205: parsed_data = analyze_pdf(temp_pdf_path, pwd, bank_name)
AnalyzeTemp(p) ==
    /\ procs[p].pc = "analyze"
    /\ procs' = [procs EXCEPT ![p].pc = "remove",
                              ![p].result = analyze_pdf(FileAt(procs[p].email.filename), 1,
                                                        procs[p].email.bank, now)]
    /\ UNCHANGED files

\* line 208: os.remove(temp_pdf_path) raises FileNotFoundError when the file
\* is gone
RemoveTemp(p) ==
    /\ procs[p].pc = "remove"
    /\ IF IsNone(files[procs[p].email.filename])
       THEN /\ procs' = [procs EXCEPT ![p].pc = "crashed", ![p].result = Raise]
            /\ UNCHANGED files
       ELSE /\ procs' = [procs EXCEPT ![p].pc = "done"]
            /\ files' = [files EXCEPT ![procs[p].email.filename] = None]

NextConcurrent ==
    /\ \E p \in 1..Len(procs) : OpenTemp(p) \/ WriteTemp(p) \/ AnalyzeTemp(p) \/ RemoveTemp(p)
    /\ UNCHANGED <<doc, now, run, pc, idx, parsed_data, log, outcome, bills, call, ret>>

SpecConcurrent == InitConcurrent /\ [][NextConcurrent]_vars

\* the outcome of an invocation that runs alone
Alone(email) == analyze_pdf(email.pdf_data, 1, email.bank, now)

\* C15  Two interleaved invocations on different documents each end with
\* the outcome they have alone, whatever the attachment filenames are.  The
\* temporary file is named after the attachment only: it fails.
Isolation ==
    \A p \in 1..Len(procs) :
        procs[p].pc \in {"remove", "done", "crashed"} =>
            /\ procs[p].pc # "crashed"
            /\ procs[p].result = Alone(procs[p].email)

----------------------------------------------------------------------------
(* parse_pdf_content on its own: a text where one strategy of one field of
   the institution's profile matches *)

InitParse ==
    /\ \E bank \in KnownBanks, field \in Fields :
         \E i \in 1..Len(COMPREHENSIVE_BANK_PATTERNS[bank][field]), v \in RawValues(field) :
            call = [fn |-> "parse_pdf_content",
                    pdf_text |-> <<MatchLine(Pattern(bank, field, i).re,
                                             GroupsOf(Pattern(bank, field, i), field, v))>>,
                    bank_name |-> bank,
                    field |-> field,
                    strategy |-> i]
    /\ ret = None
    /\ doc = Idle /\ now = StartTime /\ run = 1 /\ pc = "harness" /\ idx = 1
    /\ parsed_data = ReturnNone /\ log = <<>> /\ outcome = <<>> /\ bills = <<>>
    /\ files = NoFiles /\ procs = <<>>

ApplyParsePdfContent ==
    /\ pc = "harness"
    /\ call.fn = "parse_pdf_content"
    /\ IsNone(ret)
    /\ ret' = Some(parse_pdf_content(call.pdf_text, call.bank_name))
    /\ UNCHANGED <<doc, now, run, pc, idx, parsed_data, log, outcome, bills, call, files, procs>>

NextParse == ApplyParsePdfContent

SpecParse == InitParse /\ [][NextParse]_vars

\* the groups captured on the line of the text
Captured == call.pdf_text[1].groups

\* the normalizer of a field applied to a raw value
Normalized(field, raw) ==
    IF field = "card_number" THEN Some(raw)
    ELSE IF field \in {"statement_date", "due_date"} THEN clean_and_convert_date(Some(raw), None)
    ELSE clean_and_convert_amount(Some(raw))

\* C16  Group selection: the value of the field whose strategy matched is
\* the normalized only group of the match when it has one group and the
\* normalized last group when it has more.
GroupSelection ==
    Applied("parse_pdf_content") =>
        /\ ~Val(ret).raised
        /\ Val(ret).data[ResultKey(call.field)] =
              IF Len(Captured) = 1 THEN Normalized(call.field, Captured[1])
              ELSE Normalized(call.field, Captured[Len(Captured)])

\* a match with two different groups whose second group became the field
GroupSelectionWitness ==
    /\ Applied("parse_pdf_content")
    /\ Len(Captured) = 2
    /\ Captured[1] # Captured[2]
    /\ Normalized(call.field, Captured[1]) # Normalized(call.field, Captured[2])
    /\ Val(ret).data[ResultKey(call.field)] = Normalized(call.field, Captured[2])

----------------------------------------------------------------------------
\* the strategies of a field of the document's profile that match a text
MatchingIn(text, field) ==
    LET patterns == COMPREHENSIVE_BANK_PATTERNS[str_lower(doc.bank)][field]
    IN  {i \in 1..Len(patterns) : ~IsNone(re_search(patterns[i], text))}

\* the raw value of a date field: the group captured by the lowest-indexed
\* strategy that matches, None when none matches
FirstRaw(text, field) ==
    LET patterns == COMPREHENSIVE_BANK_PATTERNS[str_lower(doc.bank)][field]
        hits == MatchingIn(text, field)
        first == CHOOSE i \in hits : \A j \in hits : i <= j
        groups == Val(re_search(patterns[first], text))
    IN  IF hits = {} THEN None ELSE Some(groups[Len(groups)])

\* the raw value is there and no format of DATE_FORMATS reads it
Unparsable(raw) ==
    ~IsNone(raw) /\ \A i \in 1..Len(DATE_FORMATS) : IsNone(strptime(Val(raw), DATE_FORMATS[i]))

\* the calls that got a text of an institution with a profile
ParsedEntries == {e \in Entries : GotText(e) /\ str_lower(doc.bank) \in KnownBanks}

\* C17  Normalization failure is field absence: a date field whose first
\* matching strategy captured an unparsable value is absent, whatever later
\* strategies would capture; with an unparsable due date the document is
\* rejected; with an unparsable statement date, a card number and a due date
\* the validator accepts on its own, the record is returned without
\* statement date: the chronology rule is not applied.
NormalizationFailureIsAbsence ==
    \A e \in ParsedEntries :
        LET text == Val(TextOf(e))
            extracted == parse_pdf_content(text, doc.bank).data
            stmt == FirstRaw(text, "statement_date")
            due == FirstRaw(text, "due_date")
        IN  /\ Unparsable(due) => (IsNone(extracted.due_date) /\ Rejected(e))
            /\ Unparsable(stmt) => IsNone(extracted.statement_date)
            /\ (/\ Unparsable(stmt)
                /\ ~IsNone(extracted.card_last4)
                /\ ~IsNone(extracted.due_date)
                /\ is_valid_date(extracted.due_date, None, e.at)
                /\ ~(str_lower(doc.bank) = "icici" /\ ContainsLower(text, "amortization schedule")))
                  => (Accepted(e) /\ IsNone(e.result.data.statement_date))

\* an unparsable statement date before a place where a later strategy
\* captures a date after the due date: the record is returned, without
\* statement date
NormalizationFailureIsAbsenceWitness ==
    \E e \in ParsedEntries :
        /\ Unparsable(FirstRaw(Val(TextOf(e)), "statement_date"))
        /\ Cardinality(MatchingIn(Val(TextOf(e)), "statement_date")) > 1
        /\ Accepted(e)
        /\ IsNone(e.result.data.statement_date)
        /\ ~IsNone(e.result.data.total_due)

----------------------------------------------------------------------------
\* the text has a line with the phrase, in any letter case
HasPhrase(text) == \E i \in 1..Len(text) : text[i].kind = "phrase" /\ text[i].s \in Phrases

IsNoPhraseLine(line) == line.kind # "phrase"

\* the document with the phrase lines taken out of every page
WithoutPhrase(pdf) ==
    [k \in 1..Len(pdf) |->
        [plumber |-> [pages |-> [i \in 1..Len(pdf[k].plumber.pages) |->
                                    SelectSeq(pdf[k].plumber.pages[i], IsNoPhraseLine)],
                      raises |-> pdf[k].plumber.raises],
         pypdf |-> [pages |-> [i \in 1..Len(pdf[k].pypdf.pages) |->
                                    SelectSeq(pdf[k].pypdf.pages[i], IsNoPhraseLine)],
                    raises |-> pdf[k].pypdf.raises]]]

\* the institution identifier means icici, in any letter case
IsIcici(bank_name) == bank_name \in {"icici", "ICICI", "Icici"}

\* C18  The amortization guard is per-institution and comes first: for
\* icici, in any letter case, a text with the phrase, in any letter case,
\* is rejected whatever else it holds; for every other institution the
\* outcome is the outcome of the same document without the phrase.
ContentGuard ==
    \A e \in Entries :
        /\ (GotText(e) /\ IsIcici(doc.bank) /\ HasPhrase(Val(TextOf(e)))) => Rejected(e)
        /\ ~IsIcici(doc.bank) =>
              e.result = analyze_pdf(WithoutPhrase(doc.pdf), e.password, doc.bank, e.at)

\* a good icici statement with the phrase in capitals, handed in as "Icici":
\* rejected, though accepted without the phrase
ContentGuardWitness ==
    \E e \in Entries :
        /\ doc.bank = "Icici"
        /\ GotText(e)
        /\ \E i \in 1..Len(Val(TextOf(e))) : Val(TextOf(e))[i].s = "AMORTIZATION SCHEDULE"
        /\ Rejected(e)
        /\ analyze_pdf(WithoutPhrase(doc.pdf), e.password, doc.bank, e.at).kind = "record"

\* a good statement of another institution with the phrase: accepted
ContentGuardOtherBank ==
    \E e \in Entries :
        /\ ~IsIcici(doc.bank)
        /\ GotText(e) /\ HasPhrase(Val(TextOf(e)))
        /\ Accepted(e)

----------------------------------------------------------------------------
\* what the second method produces on its own
SecondAlone(pdf, password) == accumulate(<<>>, pdf[password].pypdf.pages)

\* the first method ends normally with text that is not blank
FirstSucceeds(pdf, password) ==
    /\ ~pdf[password].plumber.raises
    /\ HasVisibleText(accumulate(<<>>, pdf[password].plumber.pages))

\* C19  Adapter strategy fallback: the text is the first method's whenever
\* that method yields text that is not blank; otherwise it is exactly what
\* the second method alone produces, with nothing left over from the first;
\* when the second method fails too there is no text and no exception.
AdapterFallback ==
    \A e \in Entries :
        LET got == extract_text_from_pdf(doc.pdf, e.password)
        IN  /\ ~got.raised
            /\ IF FirstSucceeds(doc.pdf, e.password)
               THEN got.text = Some(accumulate(<<>>, doc.pdf[e.password].plumber.pages))
               ELSE IF doc.pdf[e.password].pypdf.raises THEN got.text = None
               ELSE got.text = Some(SecondAlone(doc.pdf, e.password))

----------------------------------------------------------------------------
(* parse_pdf_content on a text that prints a total amount and a different
   minimum amount, each in the form one strategy of its field expects *)

\* the two amounts are printed on one line when the two strategies are the
\* same expression (total first, minimum second), on two lines otherwise
TwoAmountText(bank, i, j, total, minimum) ==
    IF Pattern(bank, "total_due", i).re = Pattern(bank, "min_due", j).re
    THEN <<MatchLine(Pattern(bank, "total_due", i).re, <<total, minimum>>)>>
    ELSE <<MatchLine(Pattern(bank, "total_due", i).re,
                     GroupsOf(Pattern(bank, "total_due", i), "total_due", total)),
           MatchLine(Pattern(bank, "min_due", j).re,
                     GroupsOf(Pattern(bank, "min_due", j), "min_due", minimum))>>

InitTwoAmounts ==
    /\ \E bank \in KnownBanks, total \in RawValues("total_due"), minimum \in RawValues("min_due") :
         \E i \in 1..Len(COMPREHENSIVE_BANK_PATTERNS[bank]["total_due"]),
            j \in 1..Len(COMPREHENSIVE_BANK_PATTERNS[bank]["min_due"]) :
            /\ total # minimum
            /\ call = [fn |-> "parse_pdf_content",
                       pdf_text |-> TwoAmountText(bank, i, j, total, minimum),
                       bank_name |-> bank,
                       total |-> total,
                       minimum |-> minimum,
                       strategies |-> <<i, j>>]
    /\ ret = None
    /\ doc = Idle /\ now = StartTime /\ run = 1 /\ pc = "harness" /\ idx = 1
    /\ parsed_data = ReturnNone /\ log = <<>> /\ outcome = <<>> /\ bills = <<>>
    /\ files = NoFiles /\ procs = <<>>

SpecTwoAmounts == InitTwoAmounts /\ [][NextParse]_vars

\* C20  total_due and min_due are extracted independently: a text whose
\* total and minimum amounts differ gives a record whose total_due and
\* min_due differ, for every profile.  In the axis profile the first
\* strategy of both fields is the same two-amount expression and both
\* fields take its last group: it fails.
IndependentAmounts ==
    Applied("parse_pdf_content") =>
        /\ ~Val(ret).raised
        /\ Val(ret).data.total_due # Val(ret).data.min_due
====
